---------------------------- MODULE Spec2Model ----------------------------
(***************************************************************************)
(* A model of the gerontech demand pipeline: DataCleaner (household and    *)
(* master-district reconciliation), Analyst.identify_service_gaps and      *)
(* Forecaster (population forecast, equipment demand, pandemic scenario).  *)
(*                                                                         *)
(* The program computes with Python floats (IEEE-754 binary64) inside      *)
(* pandas columns.  Several properties of the program depend on how those  *)
(* values round (int(10000 * (0.12 * 1.15)) is 1379, not 1380), so the     *)
(* model carries binary64 values exactly: a finite value is sign, odd      *)
(* mantissa and binary exponent, the mantissa being a natural number kept  *)
(* as a little-endian sequence of 14-bit limbs, since the arithmetic of    *)
(* the model checker is 32 bits wide.                                      *)
(***************************************************************************)
EXTENDS Integers, Sequences, FiniteSets, TLC

(***************************************************************************)
(* Natural numbers of any size: little-endian limb sequences, no leading   *)
(* (most significant) zero limb, zero being the empty sequence.            *)
(***************************************************************************)
RECURSIVE SmallBitLen(_)
SmallBitLen(n) == IF n = 0 THEN 0 ELSE 1 + SmallBitLen(n \div 2)

LimbBase == 2^14
LimbBits == SmallBitLen(LimbBase - 1)

RECURSIVE BStrip(_)
BStrip(x) ==
    IF x = <<>> THEN <<>>
    ELSE IF x[Len(x)] = 0 THEN BStrip(SubSeq(x, 1, Len(x) - 1))
    ELSE x

RECURSIVE BFromInt(_)
BFromInt(n) ==
    IF n = 0 THEN <<>> ELSE <<n % LimbBase>> \o BFromInt(n \div LimbBase)

RECURSIVE BToInt(_)
BToInt(x) ==
    IF x = <<>> THEN 0 ELSE Head(x) + LimbBase * BToInt(Tail(x))

RECURSIVE BAddC(_, _, _)
BAddC(x, y, c) ==
    IF x = <<>> /\ y = <<>> THEN (IF c = 0 THEN <<>> ELSE <<c>>)
    ELSE LET a == IF x = <<>> THEN 0 ELSE Head(x)
             b == IF y = <<>> THEN 0 ELSE Head(y)
             s == a + b + c
         IN  <<s % LimbBase>> \o
             BAddC(IF x = <<>> THEN <<>> ELSE Tail(x),
                   IF y = <<>> THEN <<>> ELSE Tail(y), s \div LimbBase)

BAdd(x, y) == BAddC(x, y, 0)

\* x - y for x >= y
RECURSIVE BSubC(_, _, _)
BSubC(x, y, c) ==
    IF x = <<>> THEN <<>>
    ELSE LET b == IF y = <<>> THEN 0 ELSE Head(y)
             d == Head(x) - b - c
         IN  <<IF d < 0 THEN d + LimbBase ELSE d>> \o
             BSubC(Tail(x), IF y = <<>> THEN <<>> ELSE Tail(y),
                   IF d < 0 THEN 1 ELSE 0)

BSub(x, y) == BStrip(BSubC(x, y, 0))

\* -1, 0, 1 as x < y, x = y, x > y
RECURSIVE BCmpTop(_, _, _)
BCmpTop(x, y, i) ==
    IF i = 0 THEN 0
    ELSE IF x[i] < y[i] THEN -1
    ELSE IF x[i] > y[i] THEN 1
    ELSE BCmpTop(x, y, i - 1)

BCmp(x, y) ==
    IF Len(x) < Len(y) THEN -1
    ELSE IF Len(x) > Len(y) THEN 1
    ELSE BCmpTop(x, y, Len(x))

\* x * k for a single limb k
RECURSIVE BMulSmallC(_, _, _)
BMulSmallC(x, k, c) ==
    IF x = <<>> THEN (IF c = 0 THEN <<>> ELSE <<c>>)
    ELSE LET p == Head(x) * k + c
         IN  <<p % LimbBase>> \o BMulSmallC(Tail(x), k, p \div LimbBase)

BMulSmall(x, k) == IF k = 0 THEN <<>> ELSE BMulSmallC(x, k, 0)

RECURSIVE BMul(_, _)
BMul(x, y) ==
    IF x = <<>> \/ y = <<>> THEN <<>>
    ELSE BAdd(BMulSmall(y, Head(x)),
              LET r == BMul(Tail(x), y) IN IF r = <<>> THEN <<>> ELSE <<0>> \o r)

BBitLen(x) ==
    IF x = <<>> THEN 0 ELSE LimbBits * (Len(x) - 1) + SmallBitLen(x[Len(x)])

RECURSIVE ZeroLimbs(_)
ZeroLimbs(n) == IF n = 0 THEN <<>> ELSE <<0>> \o ZeroLimbs(n - 1)

\* x * 2^n
BShl(x, n) ==
    IF x = <<>> THEN <<>>
    ELSE ZeroLimbs(n \div LimbBits) \o BMulSmall(x, 2^(n % LimbBits))

\* floor(x / 2^r) for r < LimbBits
RECURSIVE BShrBits(_, _)
BShrBits(x, r) ==
    IF x = <<>> THEN <<>>
    ELSE LET hi == IF Len(x) > 1 THEN x[2] % (2^r) ELSE 0
         IN  <<(Head(x) \div (2^r)) + hi * (2^(LimbBits - r))>> \o
             BShrBits(Tail(x), r)

\* floor(x / 2^n)
BShr(x, n) ==
    LET q == n \div LimbBits
    IN  IF q >= Len(x) THEN <<>>
        ELSE BStrip(BShrBits(SubSeq(x, q + 1, Len(x)), n % LimbBits))

\* x mod 2^n
BLow(x, n) == BSub(x, BShl(BShr(x, n), n))

RECURSIVE SmallTrailingZeros(_)
SmallTrailingZeros(n) ==
    IF n % 2 = 1 THEN 0 ELSE 1 + SmallTrailingZeros(n \div 2)

\* the number of trailing zero bits of x > 0
RECURSIVE BTrailingZeros(_)
BTrailingZeros(x) ==
    IF Head(x) = 0 THEN LimbBits + BTrailingZeros(Tail(x))
    ELSE SmallTrailingZeros(Head(x))

(***************************************************************************)
(* binary64 values.  A finite value is (-1)^s * m * 2^e with m odd (zero   *)
(* is m = <<>>, e = 0, s = 0), which makes equal values equal records.     *)
(* NaN is pandas' missing value as well.  Overflow, underflow and          *)
(* subnormals do not occur for the magnitudes of this program (counts of   *)
(* people, incomes, ratios and rates) and are not modelled.                *)
(***************************************************************************)
MantBits == 53

NaN == [k |-> "nan", s |-> 0, m |-> <<>>, e |-> 0]
Inf(sg) == [k |-> "inf", s |-> sg, m |-> <<>>, e |-> 0]
Zero == [k |-> "fin", s |-> 0, m |-> <<>>, e |-> 0]

IsNaN(a) == a.k = "nan"
IsInf(a) == a.k = "inf"
IsFin(a) == a.k = "fin"
IsZero(a) == a.k = "fin" /\ a.m = <<>>

\* the canonical record of (-1)^sg * n * 2^ex, n of at most MantBits bits
CanonShift(sg, n, ex, tz) ==
    [k |-> "fin", s |-> sg, m |-> BShr(n, tz), e |-> ex + tz]

Canon(sg, n, ex) ==
    IF n = <<>> THEN Zero ELSE CanonShift(sg, n, ex, BTrailingZeros(n))

\* q, or q + 1 when what was cut off is more than half a unit (c > 0), or is
\* half a unit (c = 0) and something lies beyond it or q is odd
RoundTie(q, c, sticky) ==
    IF c > 0 \/ (c = 0 /\ (sticky \/ (q # <<>> /\ Head(q) % 2 = 1)))
    THEN BAdd(q, <<1>>) ELSE q

\* n without its low sh bits, rounded to nearest, ties to even
RoundBits(n, sh, sticky) ==
    RoundTie(BShr(n, sh), BCmp(BLow(n, sh), BShl(<<1>>, sh - 1)), sticky)

RoundAt(sg, n, ex, sticky, sh) ==
    Canon(sg, IF sh <= 0 THEN n ELSE RoundBits(n, sh, sticky),
          IF sh <= 0 THEN ex ELSE ex + sh)

\* round-to-nearest, ties-to-even, of (n + d) * 2^ex to MantBits bits, where
\* 0 < d < 1 if sticky and d = 0 otherwise
RoundFin(sg, n, ex, sticky) == RoundAt(sg, n, ex, sticky, BBitLen(n) - MantBits)

FFromInt(n) ==
    Canon(IF n < 0 THEN 1 ELSE 0, BFromInt(IF n < 0 THEN -n ELSE n), 0)

FNeg(a) ==
    IF IsNaN(a) \/ IsZero(a) THEN a ELSE [a EXCEPT !.s = 1 - a.s]

MinInt(i, j) == IF i < j THEN i ELSE j

\* the mantissas of a and b at the exponent e0
CmpAt(a, b, e0) == BCmp(BShl(a.m, a.e - e0), BShl(b.m, b.e - e0))

CmpTop(a, b, ta, tb) ==
    IF ta < tb THEN -1
    ELSE IF ta > tb THEN 1
    ELSE CmpAt(a, b, MinInt(a.e, b.e))

\* -1, 0, 1 as |a| < |b|, |a| = |b|, |a| > |b|, for finite a and b
MagCmp(a, b) ==
    IF a.m = <<>> THEN (IF b.m = <<>> THEN 0 ELSE -1)
    ELSE IF b.m = <<>> THEN 1
    ELSE CmpTop(a, b, BBitLen(a.m) + a.e, BBitLen(b.m) + b.e)

\* a < b; false when either is NaN
FLt(a, b) ==
    IF IsNaN(a) \/ IsNaN(b) THEN FALSE
    ELSE IF IsInf(a) THEN a.s = 1 /\ ~(IsInf(b) /\ b.s = 1)
    ELSE IF IsInf(b) THEN b.s = 0
    ELSE IF a.s # b.s THEN a.s = 1
    ELSE MagCmp(IF a.s = 0 THEN a ELSE b, IF a.s = 0 THEN b ELSE a) < 0

FGt(a, b) == FLt(b, a)
FLe(a, b) == ~IsNaN(a) /\ ~IsNaN(b) /\ ~FLt(b, a)

\* (-1)^sa * x + (-1)^sb * y, both times 2^e0, where c compares x with y
AddSigned(sa, sb, x, y, e0, c) ==
    IF sa # sb /\ c = 0 THEN Zero
    ELSE RoundFin(IF sa = sb \/ c > 0 THEN sa ELSE sb,
                  IF sa = sb THEN BAdd(x, y)
                  ELSE BSub(IF c > 0 THEN x ELSE y, IF c > 0 THEN y ELSE x),
                  e0, FALSE)

AddAligned(sa, sb, x, y, e0) == AddSigned(sa, sb, x, y, e0, BCmp(x, y))

AddAt(a, b, e0) ==
    AddAligned(a.s, b.s, BShl(a.m, a.e - e0), BShl(b.m, b.e - e0), e0)

FAdd(a, b) ==
    IF IsNaN(a) \/ IsNaN(b) THEN NaN
    ELSE IF IsInf(a) THEN (IF IsInf(b) /\ b.s # a.s THEN NaN ELSE a)
    ELSE IF IsInf(b) THEN b
    ELSE IF a.m = <<>> THEN b
    ELSE IF b.m = <<>> THEN a
    ELSE AddAt(a, b, MinInt(a.e, b.e))

FSub(a, b) == FAdd(a, FNeg(b))

SignOf(a, b) == IF a.s = b.s THEN 0 ELSE 1

FMul(a, b) ==
    IF IsNaN(a) \/ IsNaN(b) THEN NaN
    ELSE IF IsInf(a) \/ IsInf(b)
    THEN (IF IsZero(a) \/ IsZero(b) THEN NaN ELSE Inf(SignOf(a, b)))
    ELSE IF a.m = <<>> \/ b.m = <<>> THEN Zero
    ELSE RoundFin(SignOf(a, b), BMul(a.m, b.m), a.e + b.e, FALSE)

\* long division, a limb of the quotient at a time (Knuth's algorithm D).
\* QuoFix: k is at least floor(rem / d) and p = k * d; the result is
\* <<floor(rem / d), rem mod d>>
RECURSIVE QuoFix(_, _, _, _)
QuoFix(rem, d, k, p) ==
    IF BCmp(p, rem) <= 0 THEN <<k, BSub(rem, p)>>
    ELSE QuoFix(rem, d, k - 1, BSub(p, d))

QuoFrom(rem, d, k0) == QuoFix(rem, d, k0, BMulSmall(d, k0))

\* the two top limbs of rem, as one number, for a divisor of n limbs
TopLimbs(rem, n) ==
    (IF Len(rem) > n THEN rem[n + 1] ELSE 0) * LimbBase
      + (IF Len(rem) >= n THEN rem[n] ELSE 0)

\* <<floor(rem / d), rem mod d>> for rem < LimbBase * d, the top limb of d
\* being at least LimbBase / 2: the quotient of the top limbs is at least
\* the limb sought, and exceeds it by at most 2
QuoLimb(rem, d) ==
    QuoFrom(rem, d, MinInt(LimbBase - 1, TopLimbs(rem, Len(d)) \div d[Len(d)]))

\* the limbs of floor(rem * LimbBase^n / d) put before those of acc, which
\* are more significant, and whether the division left a remainder; qr is
\* QuoLimb(rem, d)
RECURSIVE DivStep(_, _, _, _)
DivStep(qr, d, n, acc) ==
    IF n = 0 THEN << <<qr[1]>> \o acc, qr[2] # <<>> >>
    ELSE DivStep(QuoLimb(IF qr[2] = <<>> THEN <<>> ELSE <<0>> \o qr[2], d),
                 d, n - 1, <<qr[1]>> \o acc)

\* <<the n + 1 limbs of floor(rem * LimbBase^n / d), least significant first,
\*   whether the division left a remainder>>
DivLimbs(rem, d, n) == DivStep(QuoLimb(rem, d), d, n, <<>>)

\* the limbs of a quotient: enough for MantBits + 2 bits after the first
QuoLimbs == (MantBits + 2) \div LimbBits + 1

DivRound(sg, qr, ex) == RoundFin(sg, BStrip(qr[1]), ex, qr[2])

\* the divisor's top limb filled (shifted by db), the dividend as long (da)
DivShifted(a, b, da, db) ==
    DivRound(SignOf(a, b), DivLimbs(BShl(a.m, da), BShl(b.m, db), QuoLimbs),
             a.e - b.e + db - da - LimbBits * QuoLimbs)

DivTo(a, b, la, lb, tg) == DivShifted(a, b, tg - la, tg - lb)

DivLens(a, b, la, lb) ==
    DivTo(a, b, la, lb,
          LimbBits * (((IF la > lb THEN la ELSE lb) + LimbBits - 1) \div LimbBits))

\* numpy's true division: x / 0 is inf (nan for 0 / 0), never an exception
FDiv(a, b) ==
    IF IsNaN(a) \/ IsNaN(b) THEN NaN
    ELSE IF IsInf(a) THEN (IF IsInf(b) THEN NaN ELSE Inf(SignOf(a, b)))
    ELSE IF IsInf(b) THEN Zero
    ELSE IF b.m = <<>> THEN (IF a.m = <<>> THEN NaN ELSE Inf(SignOf(a, b)))
    ELSE IF a.m = <<>> THEN Zero
    ELSE DivLens(a, b, BBitLen(a.m), BBitLen(b.m))

\* a decimal literal num/den of the source: the nearest binary64 value
FDec(num, den) == FDiv(FFromInt(num), FFromInt(den))

\* the integer (-1)^sg * mag
Signed(sg, mag) == IF sg = 1 THEN -mag ELSE mag

\* Python's int(x) for finite x: truncation toward zero
FTrunc(a) ==
    Signed(a.s, BToInt(IF a.e >= 0 THEN BShl(a.m, a.e) ELSE BShr(a.m, -a.e)))

\* floor(x) for finite x
FFloor(a) == FTrunc(a) - (IF a.s = 1 /\ a.e < 0 THEN 1 ELSE 0)

\* 1000 * |a| as n * 2^a.e, rounded to the nearest integer (ties to even)
Thousandths(n, ex) ==
    IF ex >= 0 THEN BShl(n, ex) ELSE RoundBits(n, -ex, FALSE)

\* Python's round(x, 3) of a finite x >= 0: the binary64 value nearest to the
\* three-decimal number nearest to x (ties of the exact value to even)
Round3(a) ==
    IF a.m = <<>> THEN Zero
    ELSE FDiv(Canon(a.s, Thousandths(BMulSmall(a.m, 1000), a.e), 0), FFromInt(1000))

(***************************************************************************)
(* Sequences as tables: a table is a sequence of rows (records).           *)
(***************************************************************************)
RECURSIVE Flatten(_)
Flatten(ss) == IF ss = <<>> THEN <<>> ELSE Head(ss) \o Flatten(Tail(ss))

Range(sq) == {sq[i] : i \in 1..Len(sq)}

(***************************************************************************)
(* config.py                                                               *)
(***************************************************************************)
FORECAST_YEARS == <<2025, 2026, 2027, 2028, 2029, 2030>>
HISTORICAL_YEARS == <<2019, 2020, 2021, 2022, 2023, 2024>>

HK_DISTRICTS ==
    <<"Central and Western", "Wan Chai", "Eastern", "Southern",
      "Yau Tsim Mong", "Sham Shui Po", "Kowloon City", "Wong Tai Sin",
      "Kwun Tong", "Kwai Tsing", "Tsuen Wan", "Tuen Mun",
      "Yuen Long", "North", "Tai Po", "Sha Tin", "Sai Kung", "Islands">>

\* the categories in the order of the dictionary EQUIPMENT_ADOPTION_RATES
Categories ==
    <<"Mobility - Wheelchairs", "Mobility - Walkers", "Bathroom Safety",
      "Beds & Transfer", "Monitoring", "Respiratory", "Daily Living",
      "Exercise", "Cognitive Support">>

\* the literals of EQUIPMENT_ADOPTION_RATES, in hundredths
AdoptionPercent ==
    [c \in Range(Categories) |->
        CASE c = "Mobility - Wheelchairs" -> 12
          [] c = "Mobility - Walkers"     -> 15
          [] c = "Bathroom Safety"        -> 18
          [] c = "Beds & Transfer"        -> 8
          [] c = "Monitoring"             -> 10
          [] c = "Respiratory"            -> 6
          [] c = "Daily Living"           -> 5
          [] c = "Exercise"               -> 4
          [] c = "Cognitive Support"      -> 7]

EQUIPMENT_ADOPTION_RATES ==
    [c \in Range(Categories) |-> FDec(AdoptionPercent[c], 100)]

\* the literal of ADOPTION_GROWTH_RATE, in hundredths
AdoptionGrowthPercent == 5
ADOPTION_GROWTH_RATE == FDec(AdoptionGrowthPercent, 100)

\* the literals of PANDEMIC_MULTIPLIERS, in hundredths
MultiplierPercent ==
    [c \in Range(Categories) |->
        CASE c = "Respiratory"            -> 350
          [] c = "Monitoring"             -> 280
          [] c = "Cognitive Support"      -> 180
          [] c = "Mobility - Wheelchairs" -> 70
          [] c = "Mobility - Walkers"     -> 65
          [] c = "Exercise"               -> 190
          [] c = "Bathroom Safety"        -> 85
          [] c = "Beds & Transfer"        -> 120
          [] c = "Daily Living"           -> 110]

PANDEMIC_MULTIPLIERS ==
    [c \in Range(Categories) |-> FDec(MultiplierPercent[c], 100)]

(***************************************************************************)
(* The state.  A DataFrame is a record of its columns and its rows; a key  *)
(* missing from a dictionary is the table Absent.                          *)
(***************************************************************************)
VARIABLES
    pc,         \* the method main() runs next, or "done", or "raised"
    files,      \* the input files, as the frames pandas parses from them
    raw,        \* DataReader.data
    data,       \* DataCleaner.cleaned, handed to Analyst and Forecaster
    insights,   \* Analyst.insights
    forecasts   \* Forecaster.forecasts

vars == <<pc, files, raw, data, insights, forecasts>>

Table(cols, rows) == [present |-> TRUE, cols |-> cols, rows |-> rows]
Absent == [present |-> FALSE, cols |-> {}, rows |-> <<>>]
\* pd.DataFrame([]): a frame with no rows and no columns
EmptyFrame == Table({}, <<>>)

RECURSIVE SeqProduct(_)
SeqProduct(ss) ==
    IF ss = <<>> THEN {<<>>}
    ELSE {<<h>> \o t : h \in Head(ss), t \in SeqProduct(Tail(ss))}

RECURSIVE SumInts(_)
SumInts(sq) == IF sq = <<>> THEN 0 ELSE Head(sq) + SumInts(Tail(sq))

RECURSIVE FSum(_, _)
FSum(sq, acc) == IF sq = <<>> THEN acc ELSE FSum(Tail(sq), FAdd(acc, Head(sq)))

\* Series.mean() of a float column without missing values
FMean(sq) == FDiv(FSum(sq, Zero), FFromInt(Len(sq)))

(***************************************************************************)
(* forecaster.py                                                           *)
(***************************************************************************)
ForecastCols == {"District", "year", "annual_growth", "r2_score"}
EquipmentCols ==
    {"District", "Year", "Equipment_Category", "Elderly_Population",
     "Adoption_Rate", "Estimated_Demand"}
PandemicCols ==
    {"District", "Equipment_Category", "Normal_Demand", "Pandemic_Demand",
     "Multiplier", "Difference"}

pop_values(row) ==
    <<row.elderly_2019, row.elderly_2020, row.elderly_2021,
      row.elderly_2022, row.elderly_2023, row.elderly_2024>>

\* 35 times the least-squares slope over the years 2019..2024
SlopeNum(y) == 5 * (y[6] - y[1]) + 3 * (y[5] - y[2]) + (y[4] - y[3])

\* 210 times the fitted value of LinearRegression at a year
PredNum(y, year) == 35 * SumInts(y) + 3 * SlopeNum(y) * (2 * year - 4043)

IntDiv(n, d) == IF n >= 0 THEN n \div d ELSE -((-n) \div d)

\* int(pred[i]): the fitted value is computed in floating point, so a fit
\* whose exact value is a whole number may come out just under or just
\* over it; a constant series is fitted exactly (slope 0.0, intercept the
\* mean)
IntPred(y, year) ==
    LET n == PredNum(y, year)
        v == IntDiv(n, 210)
    IN  IF n % 210 # 0 \/ SlopeNum(y) = 0 \/ v = 0 THEN {v}
        ELSE IF v > 0 THEN {v - 1, v} ELSE {v, v + 1}

\* model.coef_[0], to the nearest binary64
annual_growth(y) == FDiv(FFromInt(SlopeNum(y)), FFromInt(35))

\* six times the total sum of squares of the series, as a float
SStot6(y) ==
    LET sq6 == FSum([i \in 1..6 |-> FMul(FFromInt(6), FMul(FFromInt(y[i]), FFromInt(y[i])))], Zero)
        s   == FFromInt(SumInts(y))
    IN  FSub(sq6, FMul(s, s))

\* r2_score of the fit on the historical years, to within rounding; a
\* constant series scores 1.0
r2(y) ==
    IF SlopeNum(y) = 0 THEN FFromInt(1)
    ELSE LET s == FFromInt(SlopeNum(y))
         IN  FDiv(FMul(FFromInt(3), FMul(s, s)), FMul(FFromInt(35), SStot6(y)))

forecast_rows(df) ==
    SeqProduct([i \in 1..Len(df) |->
        {[District |-> df[i].District,
          year |-> [yr \in Range(FORECAST_YEARS) |-> p[yr - 2024]],
          annual_growth |-> annual_growth(pop_values(df[i])),
          r2_score |-> r2(pop_values(df[i]))] :
         p \in SeqProduct([j \in 1..Len(FORECAST_YEARS) |->
                  IntPred(pop_values(df[i]), FORECAST_YEARS[j])])}])

\* a total row that copies the first district instead of summing them all
hk_total_of_first(rows) ==
    [District |-> "Hong Kong Total",
     year |-> [yr \in Range(FORECAST_YEARS) |-> rows[1].year[yr]],
     annual_growth |-> rows[1].annual_growth,
     r2_score |-> rows[1].r2_score]

\* a total row that adds up the growth and the fit of the districts
hk_total_of_sums(rows) ==
    [District |-> "Hong Kong Total",
     year |-> [yr \in Range(FORECAST_YEARS) |->
                 SumInts([i \in 1..Len(rows) |-> rows[i].year[yr]])],
     annual_growth |-> FSum([i \in 1..Len(rows) |-> rows[i].annual_growth], Zero),
     r2_score |-> FSum([i \in 1..Len(rows) |-> rows[i].r2_score], Zero)]

hk_total(rows) ==
    [District |-> "Hong Kong Total",
     year |-> [yr \in Range(FORECAST_YEARS) |->
                 SumInts([i \in 1..Len(rows) |-> rows[i].year[yr]])],
     annual_growth |-> FMean([i \in 1..Len(rows) |-> rows[i].annual_growth]),
     r2_score |-> FMean([i \in 1..Len(rows) |-> rows[i].r2_score])]

\* forecast_all calling simulate_pandemic_scenario before
\* forecast_equipment_demand
forecast_elderly_population_then_pandemic ==
    /\ pc = "forecast_elderly_population"
    /\ IF ~data.elderly_population.present
       THEN /\ pc' = "simulate_pandemic_scenario"
            /\ UNCHANGED forecasts
       ELSE IF data.elderly_population.rows = <<>>
       THEN /\ pc' = "raised"
            /\ UNCHANGED forecasts
       ELSE \E rows \in forecast_rows(data.elderly_population.rows) :
            /\ forecasts' = [forecasts EXCEPT !.elderly_2025_2030 =
                                Table(ForecastCols, rows \o <<hk_total(rows)>>)]
            /\ pc' = "simulate_pandemic_scenario"
    /\ UNCHANGED <<files, raw, data, insights>>

forecast_elderly_population ==
    /\ pc = "forecast_elderly_population"
    /\ IF ~data.elderly_population.present
       THEN /\ pc' = "forecast_equipment_demand"
            /\ UNCHANGED forecasts
       ELSE IF data.elderly_population.rows = <<>>
       THEN \* forecast_df has no columns: forecast_df[year] raises KeyError
            /\ pc' = "raised"
            /\ UNCHANGED forecasts
       ELSE \E rows \in forecast_rows(data.elderly_population.rows) :
            /\ forecasts' = [forecasts EXCEPT !.elderly_2025_2030 =
                                Table(ForecastCols, rows \o <<hk_total(rows)>>)]
            /\ pc' = "forecast_equipment_demand"
    /\ UNCHANGED <<files, raw, data, insights>>

year_factor ==
    [year \in Range(FORECAST_YEARS) |->
        FAdd(FFromInt(1), FMul(ADOPTION_GROWTH_RATE, FFromInt(year - 2024)))]

adjusted_rate ==
    [year \in Range(FORECAST_YEARS) |->
        [category \in Range(Categories) |->
            FMul(EQUIPMENT_ADOPTION_RATES[category], year_factor[year])]]

Adoption_Rate ==
    [year \in Range(FORECAST_YEARS) |->
        [category \in Range(Categories) |-> Round3(adjusted_rate[year][category])]]

estimated_demand(elderly_pop, year, category) ==
    FTrunc(FMul(FFromInt(elderly_pop), adjusted_rate[year][category]))

\* a threshold that lets a demand of exactly 100 through
significant_from_100(demand) == demand >= 100

\* "Only significant demand"
significant(demand) == demand > 100

demand_forecasts(district_forecast) ==
    Flatten([y \in 1..Len(FORECAST_YEARS) |->
      Flatten([i \in 1..Len(district_forecast) |->
        LET year == FORECAST_YEARS[y]
            row  == district_forecast[i]
            all  == [c \in 1..Len(Categories) |->
                       [District |-> row.District,
                        Year |-> year,
                        Equipment_Category |-> Categories[c],
                        Elderly_Population |-> row.year[year],
                        Adoption_Rate |-> Adoption_Rate[year][Categories[c]],
                        Estimated_Demand |->
                            estimated_demand(row.year[year], year, Categories[c])]]
            keep(r) == significant(r.Estimated_Demand)
        IN  SelectSeq(all, keep)])])

NotTotal(row) == row.District # "Hong Kong Total"

forecast_equipment_demand ==
    /\ pc = "forecast_equipment_demand"
    /\ IF ~forecasts.elderly_2025_2030.present
       THEN /\ pc' = "simulate_pandemic_scenario"
            /\ UNCHANGED forecasts
       ELSE LET rows == demand_forecasts(
                            SelectSeq(forecasts.elderly_2025_2030.rows, NotTotal))
            IN  IF rows = <<>>
                THEN \* the frame has no 'Year' column: the summary raises KeyError
                     /\ forecasts' = [forecasts EXCEPT
                                        !.equipment_demand_2025_2030 = EmptyFrame]
                     /\ pc' = "raised"
                ELSE /\ forecasts' = [forecasts EXCEPT
                                        !.equipment_demand_2025_2030 =
                                            Table(EquipmentCols, rows)]
                     /\ pc' = "simulate_pandemic_scenario"
    /\ UNCHANGED <<files, raw, data, insights>>

Pandemic_Demand(demand, multiplier) == FTrunc(FMul(FFromInt(demand), multiplier))

Difference(demand, multiplier) ==
    FTrunc(FMul(FFromInt(demand), FSub(multiplier, FFromInt(1))))

pandemic_demand(base_2025) ==
    [i \in 1..Len(base_2025) |->
        LET row        == base_2025[i]
            category   == row.Equipment_Category
            multiplier == IF category \in DOMAIN PANDEMIC_MULTIPLIERS
                          THEN PANDEMIC_MULTIPLIERS[category] ELSE FFromInt(1)
        IN  [District |-> row.District,
             Equipment_Category |-> category,
             Normal_Demand |-> row.Estimated_Demand,
             Pandemic_Demand |-> Pandemic_Demand(row.Estimated_Demand, multiplier),
             Multiplier |-> multiplier,
             Difference |-> Difference(row.Estimated_Demand, multiplier)]]

\* the rows of every forecast year
IsForecastYear(row) == row.Year >= 2025

Is2025(row) == row.Year = 2025

simulate_pandemic_scenario ==
    /\ pc = "simulate_pandemic_scenario"
    /\ IF ~forecasts.equipment_demand_2025_2030.present
       THEN /\ pc' = "done"
            /\ UNCHANGED forecasts
       ELSE IF "Year" \notin forecasts.equipment_demand_2025_2030.cols
       THEN \* base_forecast['Year'] raises KeyError
            /\ pc' = "raised"
            /\ UNCHANGED forecasts
       ELSE LET rows == pandemic_demand(
                            SelectSeq(forecasts.equipment_demand_2025_2030.rows, Is2025))
            IN  IF rows = <<>>
                THEN \* no 'Equipment_Category' column: the summary raises KeyError
                     /\ forecasts' = [forecasts EXCEPT !.pandemic_scenario = EmptyFrame]
                     /\ pc' = "raised"
                ELSE /\ forecasts' = [forecasts EXCEPT
                                        !.pandemic_scenario = Table(PandemicCols, rows)]
                     /\ pc' = "done"
    /\ UNCHANGED <<files, raw, data, insights>>

(***************************************************************************)
(* The dictionaries before anything has been stored in them.               *)
(***************************************************************************)
NoRaw ==
    [population_age |-> Absent, deaths |-> Absent, hospital_discharges |-> Absent,
     households |-> Absent, income |-> Absent, labour_2_1 |-> Absent]
NoData ==
    [elderly_population |-> Absent, age_props |-> Absent,
     deaths_by_cause |-> Absent, hospital_discharges |-> Absent,
     deaths_total |-> Absent, hospital_top |-> Absent,
     income_2024 |-> Absent, households_2024 |-> Absent,
     labour_2024 |-> Absent, master_district |-> Absent]
NoInsights ==
    [service_gaps |-> Absent, disease_equipment_map |-> Absent,
     top10_disease_equipment |-> Absent, top5_diseases |-> Absent,
     user_personas |-> Absent, overlooked_conditions |-> Absent]
NoForecasts ==
    [elderly_2025_2030 |-> Absent, equipment_demand_2025_2030 |-> Absent,
     pandemic_scenario |-> Absent]

ElderlyCols ==
    {"District", "elderly_2019", "elderly_2020", "elderly_2021", "elderly_2022",
     "elderly_2023", "elderly_2024", "growth_2019_2024"}

growth_2019_2024(p2019, p2024) ==
    FMul(FSub(FDiv(FFromInt(p2024), FFromInt(p2019)), FFromInt(1)), FFromInt(100))

elderly_row(district, y) ==
    [District |-> district,
     elderly_2019 |-> y[1], elderly_2020 |-> y[2], elderly_2021 |-> y[3],
     elderly_2022 |-> y[4], elderly_2023 |-> y[5], elderly_2024 |-> y[6],
     growth_2019_2024 |-> growth_2019_2024(y[1], y[6])]

(***************************************************************************)
(* pandas on a column, held as a sequence of cells.  A cell is a binary64  *)
(* value, or Text for a cell that does not parse as a number.              *)
(***************************************************************************)
Text == [k |-> "text", s |-> 0, m |-> <<>>, e |-> 0]

\* utils.clean_numeric: pd.to_numeric(errors='coerce')
clean_numeric(cell) == IF cell.k = "text" THEN NaN ELSE cell

notna(a) == ~IsNaN(a)

fillna(a, value) == IF IsNaN(a) THEN value ELSE a

RECURSIVE FMinFrom(_, _)
FMinFrom(sq, acc) ==
    IF sq = <<>> THEN acc
    ELSE FMinFrom(Tail(sq), IF FLt(Head(sq), acc) THEN Head(sq) ELSE acc)

RECURSIVE FMaxFrom(_, _)
FMaxFrom(sq, acc) ==
    IF sq = <<>> THEN acc
    ELSE FMaxFrom(Tail(sq), IF FGt(Head(sq), acc) THEN Head(sq) ELSE acc)

\* Series.min(), Series.max(): missing values are skipped; NaN if none is left
SeriesMin(sq) ==
    LET v == SelectSeq(sq, notna)
    IN  IF v = <<>> THEN NaN ELSE FMinFrom(Tail(v), Head(v))

SeriesMax(sq) ==
    LET v == SelectSeq(sq, notna)
    IN  IF v = <<>> THEN NaN ELSE FMaxFrom(Tail(v), Head(v))

\* a column or a list of rows with every element evaluated
Values(sq) == sq \o <<>>

\* the rows left in the order they had
SortSkipped(rows, keys) == rows

\* the rows in the order of sort_values(ascending=False) on the keys:
\* larger keys first, equal keys in their old order, NaN keys last
SortDescending(rows, keys) ==
    LET n == Len(rows)
        k == Values(keys)
        before(j, i) ==
            IF IsNaN(k[i]) THEN notna(k[j]) \/ j < i
            ELSE /\ notna(k[j])
                 /\ \/ FGt(k[j], k[i])
                    \/ ~FGt(k[i], k[j]) /\ j < i
        pos == Values([i \in 1..n |-> 1 + Cardinality({j \in 1..n \ {i} : before(j, i)})])
    IN  Values([q \in 1..n |-> rows[CHOOSE i \in 1..n : pos[i] = q]])

\* the values in increasing order, for values without NaN
SortAscending(v) ==
    LET n == Len(v)
        before(j, i) == FLt(v[j], v[i]) \/ (~FLt(v[i], v[j]) /\ j < i)
        pos == Values([i \in 1..n |-> 1 + Cardinality({j \in 1..n \ {i} : before(j, i)})])
    IN  Values([q \in 1..n |-> v[CHOOSE i \in 1..n : pos[i] = q]])

\* Series.median(): of the values that are not missing; NaN if there is none
median_sorted(v, n) ==
    IF n = 0 THEN NaN
    ELSE IF n % 2 = 1 THEN v[(n + 1) \div 2]
    ELSE FDiv(FAdd(v[n \div 2], v[n \div 2 + 1]), FFromInt(2))

\* the smallest value in the place of the median
smallest_of(v) == IF v = <<>> THEN NaN ELSE v[1]

median_of(v) == median_sorted(v, Len(v))

SeriesMedian(sq) == median_of(SortAscending(SelectSeq(sq, notna)))

\* left.merge(right, on='District', how='left'): every left row, in order,
\* once per right row of the same district, or once with NoMatch if none
MergeLeft(left, right, Join(_, _), NoMatch(_)) ==
    Flatten([i \in 1..Len(left) |->
        LET m == SelectSeq(right, LAMBDA r : r.District = left[i].District)
        IN  IF m = <<>> THEN <<NoMatch(left[i])>>
            ELSE [j \in 1..Len(m) |-> Join(left[i], m[j])]])

Column(rows, Get(_)) == Values([i \in 1..Len(rows) |-> Get(rows[i])])

(***************************************************************************)
(* data_cleaner.py                                                         *)
(***************************************************************************)
elderly_data ==
    <<
      <<42000, 30900, 98700, 44500, 52300, 70200, 70000, 79000, 126900,
        90500, 50200, 81700, 102400, 51400, 49600, 119300, 76900, 29400>>,
      <<43200, 31900, 101400, 47100, 55000, 75300, 74400, 81400, 129400,
        92900, 52600, 85700, 108200, 53500, 53000, 124200, 81300, 30600>>,
      <<43600, 34100, 120000, 52400, 52400, 83600, 77500, 90200, 143800,
        103800, 54900, 93400, 96200, 52900, 55600, 135600, 75400, 26300>>,
      <<44200, 34900, 125300, 54700, 54300, 88000, 80700, 93600, 148800,
        108700, 58100, 100000, 103700, 60800, 60600, 143900, 81500, 28000>>,
      <<46400, 36900, 132900, 57400, 58800, 93200, 87100, 98900, 156100,
        116800, 63700, 111600, 116100, 66500, 65700, 156200, 87400, 29700>>,
      <<48600, 37800, 137600, 60900, 57700, 94800, 90200, 105100, 159600,
        120000, 65800, 118000, 125100, 71700, 74500, 161200, 93900, 33400>>
    >>

AgeNames == {"Age_0_14", "Age_15_24", "Age_25_64", "Age_65_plus"}

clean_population ==
    /\ pc = "clean_population"
    /\ LET elderly == Table(ElderlyCols,
                        [i \in 1..Len(HK_DISTRICTS) |->
                            elderly_row(HK_DISTRICTS[i],
                                        [y \in 1..6 |-> elderly_data[y][i]])])
           df == raw.population_age
       IN  IF ~df.present
           THEN /\ data' = [data EXCEPT !.elderly_population = elderly]
                /\ pc' = "clean_deaths"
           ELSE IF AgeNames \subseteq df.cols
           THEN /\ data' = [data EXCEPT
                     !.elderly_population = elderly,
                     !.age_props = Table(df.cols,
                         [i \in 1..Len(df.rows) |->
                             [df.rows[i] EXCEPT
                                 !.Age_65_plus = clean_numeric(@)]])]
                /\ pc' = "clean_deaths"
           ELSE \* df[col] raises KeyError for a column the frame lacks
                /\ data' = [data EXCEPT !.elderly_population = elderly]
                /\ pc' = "raised"
    /\ UNCHANGED <<files, raw, insights, forecasts>>

year_cols == <<2020, 2021, 2022, 2023, 2024>>

IsTotalRow(row) == row.Sex = "Total" /\ row.Age_group = "All ages"

\* pd.pivot_table(values='Count', index='cause_clean', columns='Year',
\* aggfunc='sum', fill_value=0): one row per cause, in the order of the
\* cause names, one column per year that occurs
pivot_years(total) == {total[i].Year : i \in 1..Len(total)}

cause_sum(total, cause, year) ==
    SumInts(Column(SelectSeq(total,
                LAMBDA r : r.cause_clean = cause /\ r.Year = year),
            LAMBDA r : r.Count))

pivot_rows(total, causes) ==
    [i \in 1..Len(causes) |->
        [cause_clean |-> causes[i],
         count |-> [y \in Range(year_cols) |-> cause_sum(total, causes[i], y)],
         total_2020_2024 |->
            SumInts([j \in 1..Len(year_cols) |->
                        cause_sum(total, causes[i], year_cols[j])])]]

\* the cause names that occur in the rows, in the order Causes lists them
CausesOf(total, Causes) ==
    SelectSeq(Causes, LAMBDA c : \E i \in 1..Len(total) : total[i].cause_clean = c)

\* the cause names of the death records, sorted
CauseNames == <<"Diseases of heart", "Malignant neoplasms", "Pneumonia">>

clean_deaths ==
    /\ pc = "clean_deaths"
    /\ IF ~raw.deaths.present
       THEN /\ pc' = "clean_hospital"
            /\ UNCHANGED data
       ELSE IF ~({"Cause of death", "Sex", "Age group"} \subseteq raw.deaths.cols)
       THEN \* df['Cause of death'], df['Sex'], df['Age group'] raise KeyError
            /\ pc' = "raised"
            /\ UNCHANGED data
       ELSE IF "Count" \notin raw.deaths.cols
       THEN \* pivot_table(values='Count') raises KeyError
            /\ data' = [data EXCEPT !.deaths_total =
                  Table(raw.deaths.cols \cup {"cause_clean"},
                        SelectSeq([i \in 1..Len(raw.deaths.rows) |->
                                     [Year |-> raw.deaths.rows[i].Year,
                                      Sex |-> raw.deaths.rows[i].Sex,
                                      Age_group |-> raw.deaths.rows[i].Age_group,
                                      Count |-> raw.deaths.rows[i].Count,
                                      cause_clean |-> raw.deaths.rows[i].Cause_of_death]],
                                  IsTotalRow))]
            /\ pc' = "raised"
       ELSE LET df    == [i \in 1..Len(raw.deaths.rows) |->
                            [Year |-> raw.deaths.rows[i].Year,
                             Sex |-> raw.deaths.rows[i].Sex,
                             Age_group |-> raw.deaths.rows[i].Age_group,
                             Count |-> raw.deaths.rows[i].Count,
                             cause_clean |-> raw.deaths.rows[i].Cause_of_death]]
                total == SelectSeq(df, IsTotalRow)
                pivot == pivot_rows(total, CausesOf(total, CauseNames))
                cols  == {"cause_clean"} \cup {ToString(y) : y \in pivot_years(total)}
            IN  IF Range(year_cols) \subseteq pivot_years(total)
                THEN /\ data' = [data EXCEPT
                          !.deaths_total = Table(raw.deaths.cols \cup {"cause_clean"}, total),
                          !.deaths_by_cause =
                              Table(cols \cup {"total_2020_2024"},
                                    SortDescending(pivot,
                                        Column(pivot, LAMBDA r : FFromInt(r.total_2020_2024))))]
                     /\ pc' = "clean_hospital"
                ELSE \* deaths_by_cause[year_cols] raises KeyError
                     /\ data' = [data EXCEPT
                          !.deaths_total = Table(raw.deaths.cols \cup {"cause_clean"}, total),
                          !.deaths_by_cause = Table(cols, pivot)]
                     /\ pc' = "raised"
    /\ UNCHANGED <<files, raw, insights, forecasts>>

HospitalNames ==
    {"disease", "icd10", "2017", "2018", "2019", "2020", "2021", "2022",
     "2023", "2024"}

\* df[['2019', ..., '2024']].mean(axis=1): the mean of the cells of a row
\* that are not missing
avg_2019_2024(row) ==
    LET v == SelectSeq([i \in 1..6 |-> clean_numeric(row.discharges[i + 2])], notna)
    IN  IF v = <<>> THEN NaN ELSE FMean(v)

IsFooter(row) == row.disease \in {"Overall", "Notes"}

clean_hospital ==
    /\ pc = "clean_hospital"
    /\ IF ~raw.hospital_discharges.present
       THEN /\ pc' = "clean_households"
            /\ UNCHANGED data
       ELSE IF Cardinality(raw.hospital_discharges.cols) # Cardinality(HospitalNames)
       THEN \* df.columns = [...] raises ValueError: length mismatch
            /\ pc' = "raised"
            /\ UNCHANGED data
       ELSE LET kept == SelectSeq(raw.hospital_discharges.rows,
                                  LAMBDA r : ~IsFooter(r))
                df   == [i \in 1..Len(kept) |->
                            [disease |-> kept[i].disease,
                             discharges |-> [j \in 1..8 |-> clean_numeric(kept[i].discharges[j])],
                             avg_2019_2024 |-> avg_2019_2024(kept[i])]]
                srt  == SortDescending(df, Column(df, LAMBDA r : r.avg_2019_2024))
            IN  /\ data' = [data EXCEPT
                     !.hospital_discharges =
                         Table(HospitalNames \cup {"avg_2019_2024"}, srt),
                     !.hospital_top =
                         Table(HospitalNames \cup {"avg_2019_2024"},
                               SubSeq(srt, 1, IF Len(srt) < 20 THEN Len(srt) ELSE 20))]
                /\ pc' = "clean_households"
    /\ UNCHANGED <<files, raw, insights, forecasts>>

IncomeCols == {"District", "Income_all"}

fallback_income ==
    <<42400, 40800, 32500, 36000, 29000, 24500, 31100, 25600, 24200,
      25500, 34200, 26200, 30000, 25800, 31300, 31000, 41200, 31000>>

_create_fallback_income ==
    Table(IncomeCols,
          [i \in 1..Len(HK_DISTRICTS) |->
              [District |-> HK_DISTRICTS[i],
               Income_all |-> FFromInt(fallback_income[i])]])

FallbackHouseholdCols ==
    {"District", "elderly_population", "Economically_inactive",
     "Economically_active", "Total", "inactive_ratio"}

_create_fallback_households(elderly) ==
    Table(FallbackHouseholdCols,
          [i \in 1..Len(elderly) |->
              LET inactive == FMul(FFromInt(elderly[i].elderly_2024), FDec(7, 10))
                  active   == FMul(FFromInt(elderly[i].elderly_2024), FDec(3, 10))
                  total    == FAdd(active, inactive)
              IN  [Year |-> 0,
                   District |-> elderly[i].District,
                   elderly_population |-> elderly[i].elderly_2024,
                   Economically_inactive |-> inactive,
                   Economically_active |-> active,
                   Total |-> total,
                   inactive_ratio |-> FDiv(inactive, total)]])

\* frame[frame['Year'] == 2024] when the frame has a Year column
rows_2024(df) ==
    IF "Year" \in df.cols THEN SelectSeq(df.rows, LAMBDA r : r.Year = 2024)
    ELSE df.rows

\* income_2024[['District', 'Income_all']].dropna()
income_2024(rows) ==
    LET kept == SelectSeq(rows, LAMBDA r : notna(r.Income_all))
    IN  Table(IncomeCols,
              [i \in 1..Len(kept) |->
                  [District |-> kept[i].District, Income_all |-> kept[i].Income_all]])

\* clean_numeric(column) * 1000 for the columns the frame has
thousands(cols, name, cell) ==
    IF name \in cols THEN FMul(clean_numeric(cell), FFromInt(1000)) ELSE cell

households_2024(cols, rows) ==
    LET ratio == {"Total", "Economically_inactive"} \subseteq cols
    IN  Table(IF ratio THEN cols \cup {"inactive_ratio"} ELSE cols,
              [i \in 1..Len(rows) |->
                  LET active   == thousands(cols, "Economically_active",
                                            rows[i].Economically_active)
                      inactive == thousands(cols, "Economically_inactive",
                                            rows[i].Economically_inactive)
                      total    == thousands(cols, "Total", rows[i].Total)
                  IN  [Year |-> rows[i].Year,
                       District |-> rows[i].District,
                       elderly_population |-> 0,
                       Economically_inactive |-> inactive,
                       Economically_active |-> active,
                       Total |-> total,
                       inactive_ratio |-> IF ratio THEN FDiv(inactive, total) ELSE NaN]])

\* the labour table with its labour_score: min-max of 'Both sexes', or 0.5
labour_2024(lf) ==
    IF "Both sexes" \notin lf.cols
    THEN Table(lf.cols,
               [i \in 1..Len(lf.rows) |->
                   [District |-> lf.rows[i].District,
                    Both_sexes |-> lf.rows[i].Both_sexes,
                    labour_score |-> NaN]])
    ELSE LET both  == Column(lf.rows, LAMBDA r : clean_numeric(r.Both_sexes))
             min_v == SeriesMin(both)
             max_v == SeriesMax(both)
         IN  Table(lf.cols \cup {"labour_score"},
                   [i \in 1..Len(lf.rows) |->
                       [District |-> lf.rows[i].District,
                        Both_sexes |-> both[i],
                        labour_score |->
                            IF notna(min_v) /\ notna(max_v) /\ FGt(max_v, min_v)
                            THEN FDiv(FSub(both[i], min_v), FSub(max_v, min_v))
                            ELSE FDec(5, 10)]])

clean_households ==
    /\ pc = "clean_households"
    /\ LET inc == rows_2024(raw.income)
           hh  == rows_2024(raw.households)
           d1  == [data EXCEPT
                     !.households_2024 =
                        IF raw.households.present /\ hh # <<>>
                        THEN households_2024(raw.households.cols, hh)
                        ELSE _create_fallback_households(data.elderly_population.rows),
                     !.labour_2024 =
                        IF raw.labour_2_1.present THEN labour_2024(raw.labour_2_1)
                        ELSE @]
       IN  IF raw.income.present /\ inc # <<>>
           THEN IF IncomeCols \subseteq raw.income.cols
                THEN /\ data' = [d1 EXCEPT !.income_2024 = income_2024(inc)]
                     /\ pc' = "create_master_district"
                ELSE \* income_2024[['District', 'Income_all']] raises KeyError
                     /\ pc' = "raised"
                     /\ UNCHANGED data
           ELSE /\ data' = [d1 EXCEPT !.income_2024 = _create_fallback_income]
                /\ pc' = "create_master_district"
    /\ UNCHANGED <<files, raw, insights, forecasts>>

MasterCols ==
    {"District", "elderly_2024", "growth_2019_2024", "Income_all",
     "inactive_ratio", "Age_65_plus", "income_score", "elderly_score",
     "inactive_score", "demand_potential"}

\* total_population_by_district, in hundreds of people
total_population_by_district ==
    <<2294, 1620, 5144, 2547, 2997, 4323, 4125, 4067, 6624,
      4916, 3062, 5310, 6711, 3384, 3279, 6989, 4982, 1953>>

DistrictIndex(district) == CHOOSE i \in 1..Len(HK_DISTRICTS) : HK_DISTRICTS[i] = district

\* total_population_by_district.get(row['District'], 1) * 1000
total_population(district) ==
    FMul(IF district \in Range(HK_DISTRICTS)
         THEN FDec(total_population_by_district[DistrictIndex(district)], 10)
         ELSE FFromInt(1),
         FFromInt(1000))

Age_65_plus(row) ==
    FMul(FDiv(FFromInt(row.elderly_2024), total_population(row.District)),
         FFromInt(100))

\* (x - min) / (max - min) when max > min, else 0.5
\* the normalisation without its guard for max = min
minmax_unguarded(x, min, max) == FDiv(FSub(x, min), FSub(max, min))

minmax(x, min, max) ==
    IF FGt(max, min) THEN FDiv(FSub(x, min), FSub(max, min)) ELSE FDec(5, 10)

\* the income score without its inversion
income_score_direct(x, min, max) ==
    IF FGt(max, min) THEN FDiv(FSub(x, min), FSub(max, min)) ELSE FDec(5, 10)

income_score(x, min, max) ==
    IF FGt(max, min) THEN FSub(FFromInt(1), FDiv(FSub(x, min), FSub(max, min)))
    ELSE FDec(5, 10)

demand_potential(elderly_score, income_sc, inactive_score) ==
    FMul(FAdd(FAdd(FMul(elderly_score, FDec(5, 10)), FMul(income_sc, FDec(3, 10))),
              FMul(inactive_score, FDec(2, 10))),
         FFromInt(100))

\* Series.clip(0, 100): a missing value stays missing
clip(x) ==
    IF IsNaN(x) THEN x
    ELSE IF FLt(x, Zero) THEN Zero
    ELSE IF FGt(x, FFromInt(100)) THEN FFromInt(100)
    ELSE x

\* master = elderly_population[['District', 'elderly_2024', 'growth_2019_2024']]
master_base(elderly) ==
    Values([i \in 1..Len(elderly) |->
        [District |-> elderly[i].District,
         elderly_2024 |-> elderly[i].elderly_2024,
         growth_2019_2024 |-> elderly[i].growth_2019_2024,
         Income_all |-> FFromInt(30000),
         inactive_ratio |-> NaN,
         Age_65_plus |-> NaN,
         income_score |-> NaN,
         elderly_score |-> NaN,
         inactive_score |-> NaN,
         demand_potential |-> NaN]])

\* master.merge(income_2024[['District', 'Income_all']], how='left'), or
\* master['Income_all'] = 30000
merge_income(master, income) ==
    IF income.present
    THEN MergeLeft(master, income.rows,
                   LAMBDA l, r : [l EXCEPT !.Income_all = r.Income_all],
                   LAMBDA l : [l EXCEPT !.Income_all = NaN])
    ELSE master

\* master['elderly_2024'] / master['elderly_2024'].max() * 0.5
proportional_ratio(master, elderly_max) ==
    Values([i \in 1..Len(master) |->
        [master[i] EXCEPT !.inactive_ratio =
            FMul(FDiv(FFromInt(master[i].elderly_2024), elderly_max), FDec(5, 10))]])

\* the merge with households_2024 takes inactive_ratio if the table has it
merge_households(master, households) ==
    IF households.present
    THEN IF "inactive_ratio" \in households.cols
         THEN MergeLeft(master, households.rows,
                        LAMBDA l, r : [l EXCEPT !.inactive_ratio = r.inactive_ratio],
                        LAMBDA l : l)
         ELSE master
    ELSE proportional_ratio(master,
             SeriesMax(Column(master, LAMBDA r : FFromInt(r.elderly_2024))))

merge_age_props(master, age_props) ==
    IF age_props.present
    THEN MergeLeft(master, age_props.rows,
                   LAMBDA l, r : [l EXCEPT !.Age_65_plus = r.Age_65_plus],
                   LAMBDA l : l)
    ELSE Values([i \in 1..Len(master) |->
             [master[i] EXCEPT !.Age_65_plus = Age_65_plus(master[i])]])

\* the frame after the three joins; HasRatio tells whether it has an
\* inactive_ratio column
master_joined(d) ==
    merge_age_props(
        merge_households(
            merge_income(master_base(d.elderly_population.rows), d.income_2024),
            d.households_2024),
        d.age_props)

HasRatio(d) ==
    ~d.households_2024.present \/ "inactive_ratio" \in d.households_2024.cols

\* the defaults for the income alone
fill_defaults_income_only(master) ==
    Values([i \in 1..Len(master) |->
        [master[i] EXCEPT !.Income_all = fillna(@, FFromInt(30000))]])

fill_defaults(master) ==
    Values([i \in 1..Len(master) |->
        [master[i] EXCEPT
            !.Income_all = fillna(@, FFromInt(30000)),
            !.inactive_ratio = fillna(@, FDec(35, 100)),
            !.Age_65_plus = fillna(@, FDec(223, 10))]])

score_row(row, income_min, income_max, elderly_min, elderly_max, inactive_min, inactive_max) ==
    [row EXCEPT
        !.income_score = income_score(row.Income_all, income_min, income_max),
        !.elderly_score = minmax(FFromInt(row.elderly_2024), elderly_min, elderly_max),
        !.inactive_score = minmax(row.inactive_ratio, inactive_min, inactive_max)]

with_demand_potential(row) ==
    [row EXCEPT !.demand_potential =
        clip(demand_potential(row.elderly_score, row.income_score, row.inactive_score))]

score_rows(master, income_min, income_max, elderly_min, elderly_max, inactive_min, inactive_max) ==
    Values([i \in 1..Len(master) |->
        with_demand_potential(
            score_row(master[i], income_min, income_max, elderly_min, elderly_max,
                      inactive_min, inactive_max))])

score_columns(master, income, elderly, inactive) ==
    score_rows(master, SeriesMin(income), SeriesMax(income),
               SeriesMin(elderly), SeriesMax(elderly),
               SeriesMin(inactive), SeriesMax(inactive))

master_filled(master) ==
    score_columns(master,
                  Column(master, LAMBDA r : r.Income_all),
                  Column(master, LAMBDA r : FFromInt(r.elderly_2024)),
                  Column(master, LAMBDA r : r.inactive_ratio))

master_scored(joined) == master_filled(fill_defaults(joined))

\* master.sort_values('demand_potential', ascending=False)
by_demand_potential(master) ==
    SortDescending(master, Column(master, LAMBDA r : r.demand_potential))

create_master_district ==
    /\ pc = "create_master_district"
    /\ IF ~data.elderly_population.present
       THEN /\ pc' = "identify_service_gaps"
            /\ UNCHANGED data
       ELSE IF ~HasRatio(data)
       THEN \* master['inactive_ratio'] raises KeyError
            /\ pc' = "raised"
            /\ UNCHANGED data
       ELSE /\ data' = [data EXCEPT !.master_district =
                    Table(MasterCols,
                          by_demand_potential(master_scored(master_joined(data))))]
            /\ pc' = "identify_service_gaps"
    /\ UNCHANGED <<files, raw, insights, forecasts>>

(***************************************************************************)
(* analyst.py                                                              *)
(***************************************************************************)
required_cols == {"Income_all", "demand_potential", "elderly_2024"}

GapCols ==
    {"estimated_service", "service_gap", "gap_status", "priority_score", "priority"}

\* a master row carried into the service-gap frame
gap_row(row) ==
    [District |-> row.District,
     elderly_2024 |-> row.elderly_2024,
     growth_2019_2024 |-> row.growth_2019_2024,
     Income_all |-> row.Income_all,
     inactive_ratio |-> row.inactive_ratio,
     Age_65_plus |-> row.Age_65_plus,
     income_score |-> row.income_score,
     elderly_score |-> row.elderly_score,
     inactive_score |-> row.inactive_score,
     demand_potential |-> row.demand_potential,
     labour_score |-> NaN,
     income_norm |-> NaN,
     estimated_service |-> NaN,
     service_gap |-> NaN,
     gap_status |-> "",
     priority_score |-> NaN,
     priority |-> ""]

estimated_service(income_norm, labour_score) ==
    FMul(FAdd(FMul(income_norm, FDec(6, 10)), FMul(labour_score, FDec(4, 10))),
         FFromInt(100))

\* the subtraction the other way round
service_gap_reversed(demand, service) == FSub(service, demand)

service_gap(demand, service) == FSub(demand, service)

priority_score(demand, service) ==
    FMul(demand, FSub(FFromInt(1), FDiv(service, FFromInt(100))))

\* np.where with >= in place of >
where_ge(x, threshold, yes, no) ==
    IF FGt(x, threshold) \/ (notna(x) /\ x = threshold) THEN yes ELSE no

\* np.where(column > threshold, yes, no): a comparison with NaN is false
where_gt(x, threshold, yes, no) == IF FGt(x, threshold) THEN yes ELSE no

\* np.linspace(0, 1, 4), then qs * 100 in pandas and q / 100 in numpy
tertile_q ==
    LET third == FDiv(FFromInt(1), FFromInt(3))
        pct(q) == FDiv(FMul(q, FFromInt(100)), FFromInt(100))
    IN  <<pct(Zero), pct(third), pct(FMul(FFromInt(2), third)), pct(FFromInt(1))>>

\* numpy's _lerp
lerp(a, b, t) ==
    IF FLt(t, FDec(5, 10)) THEN FAdd(a, FMul(FSub(b, a), t))
    ELSE FSub(b, FMul(FSub(b, a), FSub(FFromInt(1), t)))

\* np.percentile(values, q, method='linear') of sorted values v, Len(v) > 0
quantile(v, q) ==
    LET n    == Len(v)
        vi   == FMul(FFromInt(n - 1), q)
        prev == FFloor(vi)
    IN  IF prev >= n - 1 THEN v[n]
        ELSE lerp(v[prev + 1], v[prev + 2], FSub(vi, FFromInt(prev)))

\* the bin edges of pd.qcut(x, q=3)
tertile_bins(x) ==
    LET v == SortAscending(SelectSeq(x, notna))
    IN  Values([i \in 1..Len(tertile_q) |-> quantile(v, tertile_q[i])])

\* bins.searchsorted(x, side='left'): how many edges lie strictly below x
searchsorted(bins, x) == Cardinality({i \in 1..Len(bins) : FLt(bins[i], x)})

PriorityLabels == <<"Low", "Medium", "High">>

\* the label of bins closed on the left, as qcut would give with right=False
tertile_label_left_closed(bins, x) ==
    LET ids == IF x = bins[Len(bins)] THEN Len(bins) - 1
               ELSE Cardinality({i \in 1..Len(bins) : FLt(bins[i], x) \/ bins[i] = x})
    IN  IF IsNaN(x) \/ ids = 0 \/ ids = Len(bins) THEN "Low"
        ELSE PriorityLabels[ids]

\* the label pd.qcut gives a value, with fillna('Low') for one it gives none
tertile_label(bins, x) ==
    LET ids == IF x = bins[1] THEN 1 ELSE searchsorted(bins, x)
    IN  IF IsNaN(x) \/ ids = 0 \/ ids = Len(bins) THEN "Low"
        ELSE PriorityLabels[ids]

\* duplicates='drop' leaves fewer edges than the three labels need, and
\* _bins_to_cuts raises ValueError
qcut_raises(bins) == Cardinality(Range(bins)) # Len(PriorityLabels) + 1

\* the tertile split already for three scores
priority_labels_from_3(scores, bins, median) ==
    IF Len(SelectSeq(scores, notna)) >= 3 /\ ~qcut_raises(bins)
    THEN Values([i \in 1..Len(scores) |-> tertile_label(bins, scores[i])])
    ELSE Values([i \in 1..Len(scores) |-> where_gt(scores[i], median, "High", "Low")])

priority_labels(scores, bins, median) ==
    IF Len(SelectSeq(scores, notna)) >= 4 /\ ~qcut_raises(bins)
    THEN Values([i \in 1..Len(scores) |-> tertile_label(bins, scores[i])])
    ELSE Values([i \in 1..Len(scores) |-> where_gt(scores[i], median, "High", "Low")])

priority(scores) == priority_labels(scores, tertile_bins(scores), SeriesMedian(scores))

fallback_demand(elderly, elderly_min, elderly_max) ==
    IF FGt(elderly_max, elderly_min)
    THEN FMul(FDiv(FSub(elderly, elderly_min), FSub(elderly_max, elderly_min)),
              FFromInt(100))
    ELSE FFromInt(50)

fallback_demand_rows(rows, elderly) ==
    Values([i \in 1..Len(rows) |->
        [gap_row(rows[i]) EXCEPT
            !.demand_potential =
                fallback_demand(elderly[i], SeriesMin(elderly), SeriesMax(elderly))]])

fallback_gap_row(row, median_demand) ==
    [row EXCEPT
        !.estimated_service = FFromInt(50),
        !.service_gap = service_gap(row.demand_potential, FFromInt(50)),
        !.gap_status = where_gt(service_gap(row.demand_potential, FFromInt(50)), Zero,
                                "Underserved", "Well-served"),
        !.priority_score = row.demand_potential,
        !.priority = where_gt(row.demand_potential, median_demand, "High", "Low")]

fallback_gap_rows(rows, median_demand) ==
    Values([i \in 1..Len(rows) |-> fallback_gap_row(rows[i], median_demand)])

fallback_scored(rows) ==
    fallback_gap_rows(rows, SeriesMedian(Column(rows, LAMBDA r : r.demand_potential)))

\* df.sort_values('service_gap', ascending=False)
by_service_gap(rows) ==
    SortDescending(rows, Column(rows, LAMBDA r : r.service_gap))

_create_fallback_service_gaps(df) ==
    Table(df.cols \cup {"demand_potential"} \cup GapCols,
          by_service_gap(fallback_scored(
              fallback_demand_rows(df.rows,
                  Column(df.rows, LAMBDA r : FFromInt(r.elderly_2024))))))

\* the merge with labour_2024[['District', 'labour_score']]; without a labour
\* table the column is None throughout
merge_labour(rows, lf) ==
    IF lf.present
    THEN MergeLeft(Column(rows, gap_row), lf.rows,
                   LAMBDA l, r : [l EXCEPT !.labour_score = r.labour_score],
                   LAMBDA l : l)
    ELSE Column(rows, gap_row)

\* the median of an all-None column is NaN, and None * 0.4 is NaN
with_service(row, income_min, income_max, labour_median) ==
    [row EXCEPT
        !.income_norm = minmax(row.Income_all, income_min, income_max),
        !.labour_score = fillna(row.labour_score, labour_median)]

with_gap(row) ==
    [row EXCEPT !.estimated_service = estimated_service(row.income_norm, row.labour_score)]

with_priority_score(row) ==
    [row EXCEPT
        !.service_gap = service_gap(row.demand_potential, row.estimated_service),
        !.priority_score = priority_score(row.demand_potential, row.estimated_service)]

gap_scores(merged, income_min, income_max, labour_median) ==
    Values([i \in 1..Len(merged) |->
        with_priority_score(with_gap(
            with_service(merged[i], income_min, income_max, labour_median)))])

gap_scored(merged, income) ==
    gap_scores(merged, SeriesMin(income), SeriesMax(income),
               SeriesMedian(Column(merged, LAMBDA r : r.labour_score)))

gap_labels(scored, gap_median, prio) ==
    Values([i \in 1..Len(scored) |->
        [scored[i] EXCEPT
            !.gap_status = where_gt(scored[i].service_gap, gap_median,
                                    "Underserved", "Well-served"),
            !.priority = prio[i]]])

gap_labelled(scored) ==
    gap_labels(scored,
               SeriesMedian(Column(scored, LAMBDA r : r.service_gap)),
               priority(Column(scored, LAMBDA r : r.priority_score)))

\* the full path, on the rows left by dropna; lf is the labour table or Absent
service_gaps(df, lf) ==
    Table(df.cols \cup {"labour_score", "income_norm"} \cup GapCols,
          by_service_gap(gap_labelled(
              gap_scored(merge_labour(df.rows, lf),
                         Column(df.rows, LAMBDA r : r.Income_all)))))

\* df.dropna(subset=['Income_all', 'demand_potential'])
dropna_required(df) ==
    Table(df.cols, SelectSeq(df.rows,
                             LAMBDA r : notna(r.Income_all) /\ notna(r.demand_potential)))

\* identify_service_gaps adding its columns to the master table itself
\* instead of to a copy of it
identify_service_gaps_in_place ==
    /\ pc = "identify_service_gaps"
    /\ LET df == data.master_district
       IN  IF /\ df.present
              /\ required_cols \subseteq df.cols
              /\ dropna_required(df).rows # <<>>
              /\ data.labour_2024.present => "labour_score" \in data.labour_2024.cols
           THEN /\ insights' = [insights EXCEPT !.service_gaps =
                                   service_gaps(dropna_required(df), data.labour_2024)]
                /\ data' = [data EXCEPT !.master_district =
                                   service_gaps(dropna_required(df), data.labour_2024)]
           ELSE UNCHANGED <<insights, data>>
    /\ pc' = "map_disease_to_equipment"
    /\ UNCHANGED <<files, raw, forecasts>>

identify_service_gaps ==
    /\ pc = "identify_service_gaps"
    /\ LET df == data.master_district
       IN  IF ~df.present
           THEN /\ pc' = "map_disease_to_equipment"
                /\ UNCHANGED insights
           ELSE IF ~(required_cols \subseteq df.cols)
           THEN /\ insights' =
                     IF "elderly_2024" \in df.cols
                     THEN [insights EXCEPT !.service_gaps = _create_fallback_service_gaps(df)]
                     ELSE insights
                /\ pc' = "map_disease_to_equipment"
           ELSE IF dropna_required(df).rows = <<>>
           THEN /\ pc' = "map_disease_to_equipment"
                /\ UNCHANGED insights
           ELSE IF data.labour_2024.present /\ "labour_score" \notin data.labour_2024.cols
           THEN \* labour_2024[['District', 'labour_score']] raises KeyError
                /\ pc' = "raised"
                /\ UNCHANGED insights
           ELSE /\ insights' = [insights EXCEPT !.service_gaps =
                                   service_gaps(dropna_required(df), data.labour_2024)]
                /\ pc' = "map_disease_to_equipment"
    /\ UNCHANGED <<files, raw, data, forecasts>>

\* the 'disease' column of the mapping table
mapping ==
    <<"Cerebrovascular diseases (Stroke)", "Dementia",
      "Chronic lower respiratory diseases", "Diabetes mellitus",
      "Malignant neoplasms (Cancer)", "Diseases of heart", "Pneumonia",
      "Arthrosis", "Rheumatoid arthritis", "Fracture of femur",
      "Parkinson's disease", "Septicaemia">>

head(sq, n) == SubSeq(sq, 1, IF Len(sq) < n THEN Len(sq) ELSE n)

\* the ten causes with the most deaths, or the first ten mapped diseases
top_diseases ==
    IF data.deaths_by_cause.present
    THEN LET db == data.deaths_by_cause.rows
         IN  Column(head(SortDescending(db,
                        Column(db, LAMBDA r : FFromInt(r.total_2020_2024))), 10),
                    LAMBDA r : r.cause_clean)
    ELSE head(mapping, 10)

map_disease_to_equipment ==
    /\ pc = "map_disease_to_equipment"
    /\ IF top_diseases = <<>>
       THEN \* top10_df has no 'Missing_Equipment' column: KeyError
            /\ insights' = [insights EXCEPT
                   !.disease_equipment_map = Table({"disease"}, mapping),
                   !.top10_disease_equipment = EmptyFrame]
            /\ pc' = "raised"
       ELSE /\ insights' = [insights EXCEPT
                   !.disease_equipment_map = Table({"disease"}, mapping),
                   !.top10_disease_equipment = Table({"Disease"}, top_diseases),
                   !.top5_diseases = Table({"Disease"}, head(mapping, 5))]
            /\ pc' = "create_personas"
    /\ UNCHANGED <<files, raw, data, forecasts>>

features == {"elderly_2024", "Income_all", "labour_score", "inactive_ratio"}

\* the 'Persona' column of the hardcoded personas
_create_hardcoded_personas ==
    Table({"Persona"},
          <<"Solo Ager", "Spousal Caregiver Couple",
            "Multi-generational Family Caregiver", "Tech-Savvy Pre-Elderly",
            "Frail Elderly - High Dependency",
            "Community-dwelling with Chronic Disease">>)

\* the master table of create_master_district has no labour_score column,
\* so the personas are the hardcoded ones
create_personas ==
    /\ pc = "create_personas"
    /\ ~data.master_district.present \/ ~(features \subseteq data.master_district.cols)
    /\ insights' = [insights EXCEPT !.user_personas = _create_hardcoded_personas]
    /\ pc' = "find_overlooked_conditions"
    /\ UNCHANGED <<files, raw, data, forecasts>>

\* the 'condition' column of the fallback list
_create_fallback_overlooked ==
    Table({"condition"},
          <<"Arthrosis (Osteoarthritis)", "Fracture of femur (Hip fracture)",
            "Rheumatoid arthritis", "Cataract", "Asthma",
            "Depression & Mental Health", "Hearing loss", "Visual impairment",
            "Chronic pain syndrome", "Balance disorders & Vertigo">>)

\* str.contains('Malignant|Heart|Pneumonia|Cerebrovascular|COVID', case=False)
\* on the disease names of the model
IsLeadingCause(disease) ==
    disease \in {"Malignant neoplasms", "Diseases of heart", "Pneumonia",
                 "Cerebrovascular diseases", "COVID-19"}

find_overlooked_conditions ==
    /\ pc = "find_overlooked_conditions"
    /\ LET overlooked == head(SelectSeq(data.hospital_top.rows,
                                        LAMBDA r : ~IsLeadingCause(r.disease)), 10)
       IN  insights' = [insights EXCEPT !.overlooked_conditions =
                IF data.hospital_top.present /\ overlooked # <<>>
                THEN Table({"disease", "avg_2019_2024"}, overlooked)
                ELSE _create_fallback_overlooked]
    /\ pc' = "forecast_elderly_population"
    /\ UNCHANGED <<files, raw, data, forecasts>>

(***************************************************************************)
(* data_reader.py.  A file is the frame pandas parses from it: the names   *)
(* of its header line and its rows of cells.  A cell is a number, a text,  *)
(* or blank.                                                               *)
(***************************************************************************)
Blank == [v |-> NaN, t |-> ""]
Num(n) == [v |-> FFromInt(n), t |-> ToString(n)]
Str(txt) == [v |-> Text, t |-> txt]

NoFile == [exists |-> FALSE, header |-> <<>>, rows |-> <<>>]
File(header, rows) == [exists |-> TRUE, header |-> header, rows |-> rows]

NoFiles ==
    [population_age |-> NoFile,
     deaths |-> [y \in {2020, 2021, 2022, 2023, 2024} |-> NoFile],
     hospital_discharges |-> NoFile,
     households |-> NoFile, income |-> NoFile, labour_2_1 |-> NoFile]

\* pd.to_numeric(errors='coerce') of a cell
to_numeric(cell) == clean_numeric(cell.v)

\* the value of a Year cell as pandas compares it with 2024
YearOf(cell) ==
    IF IsFin(cell.v) /\ cell.v = FFromInt(FTrunc(cell.v)) THEN FTrunc(cell.v) ELSE 0

\* the cell of a row under a column name; blank if there is no such column
At(names, row, name) ==
    IF \E i \in 1..Len(names) : names[i] = name
    THEN row[CHOOSE i \in 1..Len(names) : names[i] = name]
    ELSE Blank

\* '2024' in first_val or 'Year' in first_val
IsYearCell(cell) == cell.v = FFromInt(2024) \/ cell.t \in {"2024", "Year"}

\* rows whose first cell holds note text are removed
NotNote(row) == row[1].t \notin {"Note", "Note(s)"}

\* dropna(subset=['District']) and the filters on the District text
IsDistrictRow(names, row) ==
    At(names, row, "District").t \notin
        {"", "District Council", "Note", "Whole Territory"}

AgeFileNames == <<"District", "Age_0_14", "Age_15_24", "Age_25_64", "Age_65_plus">>

read_population_data ==
    /\ pc = "read_population_data"
    /\ LET f == files.population_age
           n == Len(f.header)
           names == SubSeq(AgeFileNames, 1, n)
           kept == SelectSeq(f.rows, LAMBDA r : IsDistrictRow(names, r))
       IN  raw' = [raw EXCEPT !.population_age =
                \* more columns than names: ValueError, caught and logged
                IF f.exists /\ n >= 4 /\ n <= Len(AgeFileNames)
                THEN Table(Range(names),
                           [i \in 1..Len(kept) |->
                               [District |-> At(names, kept[i], "District").t,
                                Age_65_plus |-> At(names, kept[i], "Age_65_plus").v]])
                ELSE @]
    /\ pc' = "read_death_data"
    /\ UNCHANGED <<files, data, insights, forecasts>>

\* the renaming of the columns of a death file without 'Cause of death'
death_name(header, name) ==
    IF "Cause of death" \in Range(header) THEN name
    ELSE CASE name = "Cause" -> "Cause of death"
           [] name = "Age"   -> "Age group"
           [] name = "sex"   -> "Sex"
           [] name = "count" -> "Count"
           [] OTHER -> name

death_rows(f, year) ==
    LET names == [i \in 1..Len(f.header) |-> death_name(f.header, f.header[i])]
    IN  [i \in 1..Len(f.rows) |->
            [Year |-> year,
             Sex |-> At(names, f.rows[i], "Sex").t,
             Age_group |-> At(names, f.rows[i], "Age group").t,
             Cause_of_death |-> At(names, f.rows[i], "Cause of death").t,
             Count |-> YearOf(At(names, f.rows[i], "Count"))]]

death_cols(f) ==
    {death_name(f.header, f.header[i]) : i \in 1..Len(f.header)} \cup {"Year"}

\* a death file that exists and has rows
Loaded(f) == f.exists /\ f.rows # <<>>

read_death_data ==
    /\ pc = "read_death_data"
    /\ LET years == SelectSeq(year_cols, LAMBDA y : Loaded(files.deaths[y]))
       IN  raw' = [raw EXCEPT !.deaths =
                IF years = <<>> THEN @
                ELSE Table(UNION {death_cols(files.deaths[y]) : y \in Range(years)},
                           Flatten([i \in 1..Len(years) |->
                                       death_rows(files.deaths[years[i]], years[i])]))]
    /\ pc' = "read_hospital_data"
    /\ UNCHANGED <<files, data, insights, forecasts>>

read_hospital_data ==
    /\ pc = "read_hospital_data"
    /\ LET f == files.hospital_discharges
           n == Len(f.header)
       IN  raw' = [raw EXCEPT !.hospital_discharges =
                IF f.exists /\ n >= 1
                THEN Table({"Disease group"} \cup {f.header[i] : i \in 2..n},
                           [i \in 1..Len(f.rows) |->
                               [disease |-> f.rows[i][1].t,
                                discharges |->
                                    [j \in 1..8 |->
                                        IF j + 2 <= n THEN f.rows[i][j + 2].v ELSE NaN]]])
                ELSE @]
    /\ pc' = "read_household_data"
    /\ UNCHANGED <<files, data, insights, forecasts>>

HouseholdYearNames ==
    <<"Year", "District", "Economically_active", "Economically_inactive", "Total">>
HouseholdNames ==
    <<"District", "Economically_active", "Economically_inactive", "Total">>

\* the names read_household_data gives the columns of the household file; no
\* names if it gives up (fewer than 4 columns, or a ValueError it catches)
household_names(f) ==
    LET rows == SelectSeq(f.rows, NotNote)
        n    == Len(f.header)
        led  == rows # <<>> /\ IsYearCell(rows[1][1])
    IN  IF ~f.exists \/ n < 4 THEN <<>>
        ELSE IF led THEN (IF n <= 5 THEN SubSeq(HouseholdYearNames, 1, n) ELSE <<>>)
        ELSE IF n = 4 THEN HouseholdNames ELSE <<>>

\* the Year of a row: its Year cell, or the 2024 the reader inserts
year_of(names, row) ==
    IF "Year" \in Range(names) THEN YearOf(At(names, row, "Year")) ELSE 2024

read_households(f) ==
    LET names == household_names(f)
        kept  == SelectSeq(SelectSeq(f.rows, NotNote),
                           LAMBDA r : IsDistrictRow(names, r))
    IN  Table(Range(names) \cup {"Year"},
              [i \in 1..Len(kept) |->
                  [Year |-> year_of(names, kept[i]),
                   District |-> At(names, kept[i], "District").t,
                   Economically_active |-> to_numeric(At(names, kept[i], "Economically_active")),
                   Economically_inactive |-> to_numeric(At(names, kept[i], "Economically_inactive")),
                   Total |-> to_numeric(At(names, kept[i], "Total"))]])

\* the names the reader gives the columns of the income file, by their count
income_names(f) ==
    LET rows == SelectSeq(f.rows, NotNote)
        n    == Len(f.header)
        led  == rows # <<>> /\ IsYearCell(rows[1][1])
    IN  CASE n = 3 -> <<"District", "Income_active", "Income_all">>
          [] n = 4 -> IF led THEN <<"Year", "District", "Income_active", "Income_all">>
                      ELSE <<"District", "Income_active", "Income_all", "Extra">>
          [] n = 5 -> <<"Year", "District", "Income_active", "Income_all", "Extra">>
          [] n = 2 -> <<"District", "Income_all">>
          [] OTHER -> f.header

\* the columns of the income frame the reader stores
income_cols(f) ==
    LET n == Len(f.header)
    IN  IF n \in {2, 3, 4, 5}
        THEN {"Year", "District", "Income_active", "Income_all"}
        ELSE Range(f.header)

read_income(f) ==
    LET names == income_names(f)
        rows  == SelectSeq(f.rows, NotNote)
        kept  == IF "District" \in Range(names)
                 THEN SelectSeq(rows, LAMBDA r : IsDistrictRow(names, r))
                 ELSE rows
    IN  Table(income_cols(f),
              [i \in 1..Len(kept) |->
                  [Year |-> IF Len(f.header) \in {2, 3, 4, 5}
                            THEN year_of(names, kept[i])
                            ELSE YearOf(At(names, kept[i], "Year")),
                   District |-> At(names, kept[i], "District").t,
                   Income_all |-> to_numeric(At(names, kept[i], "Income_all"))]])

LabourNames == <<"District", "Male", "Female", "Both sexes">>

\* the names of the columns of the labour file; no names if the reader
\* gives up (a ValueError or a KeyError it catches)
labour_names(f) ==
    LET n == Len(f.header)
    IN  IF ~f.exists THEN <<>>
        ELSE IF n >= 4 THEN (IF n = 4 THEN LabourNames ELSE <<>>)
        ELSE IF "District" \in Range(f.header) THEN f.header ELSE <<>>

IsLabourRow(names, row) ==
    At(names, row, "District").t \notin {"Whole Territory", "Table", "Year"}

read_labour(f) ==
    LET names == labour_names(f)
        kept  == SelectSeq(f.rows, LAMBDA r : IsLabourRow(names, r))
    IN  Table(Range(names),
              [i \in 1..Len(kept) |->
                  [District |-> At(names, kept[i], "District").t,
                   Both_sexes |-> to_numeric(At(names, kept[i], "Both sexes"))]])

read_household_data ==
    /\ pc = "read_household_data"
    /\ raw' = [raw EXCEPT
          !.households = IF household_names(files.households) # <<>>
                         THEN read_households(files.households) ELSE @,
          !.income = IF files.income.exists THEN read_income(files.income) ELSE @,
          !.labour_2_1 = IF labour_names(files.labour_2_1) # <<>>
                         THEN read_labour(files.labour_2_1) ELSE @]
    /\ pc' = "clean_population"
    /\ UNCHANGED <<files, data, insights, forecasts>>

(***************************************************************************)
(* Forecaster on its own: Forecaster(cleaned_data, insights).forecast_all()*)
(* for elderly series drawn from a bounded set.                            *)
(***************************************************************************)
NForecastRows == 2

\* elderly series: constant ones around the demand threshold of 100, and
\* one that rises unevenly
Histories ==
    {[i \in 1..6 |-> v] : v \in {100, 500, 953, 962, 1600, 10000}}
        \cup {<<60, 200, 90, 250, 100, 300>>}

InitForecast ==
    /\ pc = "forecast_elderly_population"
    /\ files = NoFiles
    /\ raw = NoRaw
    /\ insights = NoInsights
    /\ forecasts = NoForecasts
    /\ \E h \in [1..NForecastRows -> Histories] :
          data = [NoData EXCEPT !.elderly_population =
                     Table(ElderlyCols,
                           [i \in 1..NForecastRows |-> elderly_row(HK_DISTRICTS[i], h[i])])]

NextForecast ==
    \/ forecast_elderly_population
    \/ forecast_equipment_demand
    \/ simulate_pandemic_scenario

SpecForecast == InitForecast /\ [][NextForecast]_vars

\* the district rows of the population forecast
district_forecast == SelectSeq(forecasts.elderly_2025_2030.rows, NotTotal)

\* the rows of the equipment demand table for a district, year and category
EquipmentRowsOf(district, year, category) ==
    {i \in 1..Len(forecasts.equipment_demand_2025_2030.rows) :
        LET r == forecasts.equipment_demand_2025_2030.rows[i]
        IN  r.District = district /\ r.Year = year /\ r.Equipment_Category = category}

\* C9: the equipment demand table has a row for a district, year and
\* category exactly when the estimated demand of that combination is above
\* 100, and the row carries that demand
C9_RowIffDemandAbove100 ==
    forecasts.equipment_demand_2025_2030.present =>
        \A i \in 1..Len(district_forecast) :
            \A year \in Range(FORECAST_YEARS) :
                \A category \in Range(Categories) :
                    LET row    == district_forecast[i]
                        demand == estimated_demand(row.year[year], year, category)
                        found  == EquipmentRowsOf(row.District, year, category)
                    IN  /\ Cardinality(found) = (IF demand > 100 THEN 1 ELSE 0)
                        /\ \A k \in found :
                              forecasts.equipment_demand_2025_2030.rows[k].Estimated_Demand
                                  = demand

\* a table with a row of demand 101, made from a forecast in which another
\* combination has a demand of exactly 100 and no row
C9_Witness ==
    /\ forecasts.equipment_demand_2025_2030.present
    /\ \E i \in 1..Len(forecasts.equipment_demand_2025_2030.rows) :
          forecasts.equipment_demand_2025_2030.rows[i].Estimated_Demand = 101
    /\ \E i \in 1..Len(district_forecast) :
          \E year \in Range(FORECAST_YEARS) :
              \E category \in Range(Categories) :
                  /\ estimated_demand(district_forecast[i].year[year], year, category) = 100
                  /\ EquipmentRowsOf(district_forecast[i].District, year, category) = {}

\* C10: in every row of the equipment demand table, Estimated_Demand is
\* floor(population * base_rate * (1 + growth_rate * (year - 2024))), the
\* rates being the decimal numbers of the configuration
C10_DemandIsFloorOfProduct ==
    forecasts.equipment_demand_2025_2030.present =>
        \A i \in 1..Len(forecasts.equipment_demand_2025_2030.rows) :
            LET r == forecasts.equipment_demand_2025_2030.rows[i]
            IN  r.Estimated_Demand =
                    (r.Elderly_Population * AdoptionPercent[r.Equipment_Category]
                       * (100 + AdoptionGrowthPercent * (r.Year - 2024))) \div 10000

\* C3: in every row of the pandemic scenario, Pandemic_Demand is
\* floor(Normal_Demand * multiplier) and Difference is Pandemic_Demand minus
\* Normal_Demand
C3_PandemicFloorAndDifference ==
    forecasts.pandemic_scenario.present =>
        \A i \in 1..Len(forecasts.pandemic_scenario.rows) :
            LET r == forecasts.pandemic_scenario.rows[i]
            IN  /\ r.Pandemic_Demand =
                      (r.Normal_Demand * MultiplierPercent[r.Equipment_Category]) \div 100
                /\ r.Difference = r.Pandemic_Demand - r.Normal_Demand

\* the rows of the population forecast that are the territory total
TotalRows ==
    {i \in 1..Len(forecasts.elderly_2025_2030.rows) :
        forecasts.elderly_2025_2030.rows[i].District = "Hong Kong Total"}

\* C12: the forecast table has one row per district and exactly one total
\* row, whose value for each future year is the sum of the districts'
\* predictions for that year
C12_TotalRowIsSum ==
    forecasts.elderly_2025_2030.present =>
        /\ Cardinality(TotalRows) = 1
        /\ Len(district_forecast) = Len(data.elderly_population.rows)
        /\ \A j \in 1..Len(data.elderly_population.rows) :
              Cardinality({i \in 1..Len(district_forecast) :
                  district_forecast[i].District
                      = data.elderly_population.rows[j].District}) = 1
        /\ \A t \in TotalRows : \A year \in Range(FORECAST_YEARS) :
              forecasts.elderly_2025_2030.rows[t].year[year]
                  = SumInts([i \in 1..Len(district_forecast) |->
                                district_forecast[i].year[year]])

\* a forecast of two districts with different predictions and their sum
C12_Witness ==
    /\ forecasts.elderly_2025_2030.present
    /\ Len(district_forecast) >= 2
    /\ district_forecast[1].year[2030] # district_forecast[2].year[2030]
    /\ district_forecast[1].year[2030] > 0
    /\ \E t \in TotalRows :
          forecasts.elderly_2025_2030.rows[t].year[2030]
              = district_forecast[1].year[2030] + district_forecast[2].year[2030]

(***************************************************************************)
(* The whole run of main(): the four stages over input files drawn from a  *)
(* bounded set of shapes.                                                  *)
(***************************************************************************)
HouseholdFiles ==
    {NoFile,
     \* Year, District, active, inactive, Total
     File(<<"a", "b", "c", "d", "e">>,
          <<<<Num(2024), Str("Eastern"), Num(120), Num(60), Num(180)>>,
            <<Num(2024), Str("Sha Tin"), Num(150), Num(90), Num(240)>>,
            <<Num(2023), Str("Islands"), Num(40), Num(30), Num(70)>>>>),
     \* Year, District, active, inactive: no Total column
     File(<<"a", "b", "c", "d">>,
          <<<<Num(2024), Str("Eastern"), Num(120), Num(60)>>,
            <<Num(2024), Str("Sha Tin"), Num(150), Num(90)>>>>),
     \* District, active, inactive, Total
     File(<<"a", "b", "c", "d">>,
          <<<<Str("Eastern"), Num(120), Num(60), Num(180)>>,
            <<Str("Whole Territory"), Num(270), Num(150), Num(420)>>>>)}

IncomeFiles ==
    {NoFile,
     \* Year, District, Income_active, Income_all
     File(<<"a", "b", "c", "d">>,
          <<<<Num(2024), Str("Eastern"), Num(41000), Num(32500)>>,
            <<Num(2024), Str("Wan Chai"), Num(52000), Str("n.a.")>>,
            <<Num(2024), Str("Islands"), Num(35000), Num(31000)>>>>),
     \* six columns: none of the shapes the reader names
     File(<<"a", "b", "c", "d", "e", "f">>,
          <<<<Num(2024), Str("Eastern"), Num(41000), Num(32500), Num(1), Num(2)>>>>)}

AgeFiles ==
    {NoFile,
     File(<<"a", "b", "c", "d", "e">>,
          <<<<Str("Eastern"), Num(10), Num(9), Num(55), Num(26)>>,
            <<Str("Whole Territory"), Num(11), Num(9), Num(58), Num(22)>>>>),
     \* the last age band is missing
     File(<<"a", "b", "c", "d">>,
          <<<<Str("Eastern"), Num(10), Num(9), Num(55)>>>>)}

DeathHeader == <<"Cause of death", "Sex", "Age group", "Count">>

DeathFile(n) ==
    File(DeathHeader,
         <<<<Str("Pneumonia"), Str("Total"), Str("All ages"), Num(n)>>,
           <<Str("Pneumonia"), Str("Male"), Str("All ages"), Num(n \div 2)>>,
           <<Str("Malignant neoplasms"), Str("Total"), Str("All ages"), Num(2 * n)>>>>)

DeathFiles ==
    {[y \in Range(year_cols) |-> NoFile],
     [y \in Range(year_cols) |-> DeathFile(y - 2000)],
     \* the records of 2022 are missing
     [y \in Range(year_cols) |-> IF y = 2022 THEN NoFile ELSE DeathFile(y - 2000)]}

HospitalHeader ==
    <<"Disease group", "ICD-10", "2017", "2018", "2019", "2020", "2021", "2022",
      "2023", "2024">>

HospitalFiles ==
    {NoFile,
     File(HospitalHeader,
          <<<<Str("Pneumonia"), Str("J12-J18"), Num(50), Num(52), Num(54), Num(40),
              Num(45), Num(50), Num(56), Num(58)>>,
            <<Str("Arthrosis"), Str("M15-M19"), Num(8), Num(8), Num(9), Num(6),
              Num(7), Num(8), Num(9), Str("-")>>,
            <<Str("Overall"), Blank, Num(58), Num(60), Num(63), Num(46),
              Num(52), Num(58), Num(65), Num(58)>>>>),
     \* the sheet has one year column less
     File(SubSeq(HospitalHeader, 1, 9),
          <<<<Str("Pneumonia"), Str("J12-J18"), Num(50), Num(52), Num(54), Num(40),
              Num(45), Num(50), Num(56)>>>>)}

LabourFiles ==
    {NoFile,
     File(<<"a", "b", "c", "d">>,
          <<<<Str("Eastern"), Num(140), Num(130), Num(270)>>,
            <<Str("Sha Tin"), Num(170), Num(165), Num(335)>>,
            <<Str("Islands"), Num(45), Num(40), Num(85)>>,
            <<Str("Whole Territory"), Num(1900), Num(1800), Num(3700)>>>>)}

AllFiles ==
    [population_age : AgeFiles, deaths : DeathFiles,
     hospital_discharges : HospitalFiles, households : HouseholdFiles,
     income : IncomeFiles, labour_2_1 : LabourFiles]

\* how many of the sources a set of files provides
Provided(f) ==
    Cardinality({k \in {"population_age", "hospital_discharges", "households",
                        "income", "labour_2_1"} : f[k].exists})
      + (IF \E y \in Range(year_cols) : f.deaths[y].exists THEN 1 ELSE 0)

\* at most this many sources at a time, or all of them
MaxSources == 2

Init ==
    /\ pc = "read_population_data"
    /\ files \in {f \in AllFiles : Provided(f) <= MaxSources \/ Provided(f) = 6}
    /\ raw = NoRaw
    /\ data = NoData
    /\ insights = NoInsights
    /\ forecasts = NoForecasts

Next ==
    \/ read_population_data
    \/ read_death_data
    \/ read_hospital_data
    \/ read_household_data
    \/ clean_population
    \/ clean_deaths
    \/ clean_hospital
    \/ clean_households
    \/ create_master_district
    \/ identify_service_gaps
    \/ map_disease_to_equipment
    \/ create_personas
    \/ find_overlooked_conditions
    \/ forecast_elderly_population
    \/ forecast_equipment_demand
    \/ simulate_pandemic_scenario

Spec == Init /\ [][Next]_vars

\* C1: no stage raises, and a run that has ended has produced the district,
\* service-gap, forecast and equipment-demand tables
C1_NoStageRaises ==
    /\ pc # "raised"
    /\ pc = "done" =>
          /\ data.master_district.present
          /\ insights.service_gaps.present
          /\ forecasts.elderly_2025_2030.present
          /\ forecasts.equipment_demand_2025_2030.present


(***************************************************************************)
(* Analyst.identify_service_gaps on its own: the Analyst is handed a       *)
(* dictionary of cleaned tables, here a master table of a few districts,   *)
(* in the order create_master_district leaves them (demand_potential       *)
(* descending, missing values last), with all of its columns or without    *)
(* one of the required ones, and a labour table or none.                   *)
(***************************************************************************)
master_row(district, elderly, income, demand) ==
    [District |-> district,
     elderly_2024 |-> elderly,
     growth_2019_2024 |-> FFromInt(10),
     Income_all |-> income,
     inactive_ratio |-> FDec(35, 100),
     Age_65_plus |-> FDec(223, 10),
     income_score |-> FDec(5, 10),
     elderly_score |-> FDec(5, 10),
     inactive_score |-> FDec(5, 10),
     demand_potential |-> demand]

GapPool ==
    <<master_row("Sha Tin", 1800, FFromInt(30000), FFromInt(100)),
      master_row("North", 900, FFromInt(30000), FFromInt(100)),
      master_row("Eastern", 1500, FFromInt(32500), FFromInt(80)),
      master_row("Kwun Tong", 1200, FFromInt(28000), FDec(625, 10)),
      master_row("Wan Chai", 500, FFromInt(52000), FFromInt(40)),
      master_row("Islands", 400, FFromInt(31000), Zero),
      master_row("Tai Po", 900, FFromInt(31000), NaN)>>

\* at most this many districts in a master table
MaxRows == 5

\* the rows of the pool at the places in picked, in the order of the pool
RECURSIVE Picked(_, _)
Picked(picked, i) ==
    IF i > Len(GapPool) THEN <<>>
    ELSE (IF i \in picked THEN <<GapPool[i]>> ELSE <<>>) \o Picked(picked, i + 1)

labour_row(district, both, score) ==
    [District |-> district, Both_sexes |-> FFromInt(both), labour_score |-> score]

LabourCols == {"District", "Male", "Female", "Both sexes", "labour_score"}

LabourTables ==
    {Absent,
     Table(LabourCols,
           <<labour_row("Eastern", 270, FDec(74, 100)),
             labour_row("Sha Tin", 335, FFromInt(1)),
             labour_row("Islands", 85, Zero),
             labour_row("Wan Chai", 130, FDec(18, 100))>>),
     \* a district listed twice
     Table(LabourCols,
           <<labour_row("Eastern", 270, FFromInt(1)),
             labour_row("Eastern", 85, Zero),
             labour_row("North", 130, FDec(25, 100))>>),
     \* no 'Both sexes' column, hence no labour_score
     Table({"District"}, <<labour_row("Eastern", 0, NaN)>>)}

\* the columns of the master table and the labour table beside it
GapCases ==
    {<<MasterCols, lf>> : lf \in LabourTables}
      \cup {<<MasterCols \ {c}, Absent>> : c \in required_cols}

InitGap ==
    /\ pc = "identify_service_gaps"
    /\ files = NoFiles
    /\ raw = NoRaw
    /\ insights = NoInsights
    /\ forecasts = NoForecasts
    /\ \E picked \in {p \in SUBSET (1..Len(GapPool)) : Cardinality(p) <= MaxRows} :
          \E case \in GapCases :
              data = [NoData EXCEPT
                        !.master_district = Table(case[1], Picked(picked, 1)),
                        !.labour_2024 = case[2]]

NextGap == identify_service_gaps

SpecGap == InitGap /\ [][NextGap]_vars

\* the service-gap table was made by the full path, not by the fallback
FullPath == "income_norm" \in insights.service_gaps.cols

\* C7: in every service-gap record, of the full path and of the fallback
\* path, service_gap is demand_potential - estimated_service of the record
C7_GapIsDemandMinusService ==
    insights.service_gaps.present =>
        \A i \in 1..Len(insights.service_gaps.rows) :
            LET r == insights.service_gaps.rows[i]
            IN  r.service_gap = FSub(r.demand_potential, r.estimated_service)

\* a table of the full path with a record whose gap is a number other than 0
C7_Witness ==
    /\ insights.service_gaps.present
    /\ FullPath
    /\ \E i \in 1..Len(insights.service_gaps.rows) :
          LET r == insights.service_gaps.rows[i]
          IN  IsFin(r.service_gap) /\ ~IsZero(r.service_gap)
                /\ IsFin(r.demand_potential) /\ IsFin(r.estimated_service)

\* C8: in every service-gap record of every tier, priority_score is
\* demand_potential * (1 - estimated_service / 100) of the record
C8_PriorityScoreFormula ==
    insights.service_gaps.present =>
        \A i \in 1..Len(insights.service_gaps.rows) :
            LET r == insights.service_gaps.rows[i]
            IN  r.priority_score =
                    FMul(r.demand_potential,
                         FSub(FFromInt(1), FDiv(r.estimated_service, FFromInt(100))))

\* C4: without a labour table and with the required columns, every record
\* has a number for estimated_service, service_gap and priority_score
C4_NoLabourScoresDefined ==
    (/\ insights.service_gaps.present
     /\ ~data.labour_2024.present
     /\ required_cols \subseteq data.master_district.cols) =>
        \A i \in 1..Len(insights.service_gaps.rows) :
            LET r == insights.service_gaps.rows[i]
            IN  IsFin(r.estimated_service) /\ IsFin(r.service_gap)
                  /\ IsFin(r.priority_score)

\* the service-gap records of a district
GapRowsOf(district) ==
    {i \in 1..Len(insights.service_gaps.rows) :
        insights.service_gaps.rows[i].District = district}

\* the table has exactly one record for every district of the master table
OneRecordPerDistrict ==
    /\ Len(insights.service_gaps.rows) = Len(data.master_district.rows)
    /\ \A j \in 1..Len(data.master_district.rows) :
          Cardinality(GapRowsOf(data.master_district.rows[j].District)) = 1

\* the elderly populations of the master table
MasterElderly == Column(data.master_district.rows, LAMBDA r : FFromInt(r.elderly_2024))

\* C15: once identify_service_gaps has run on a master table that lacks a
\* required column, there is one service-gap record per district, with
\* demand_potential the min-max scaling of the elderly population to 0-100
\* (50 when all populations are equal), estimated_service 50 and gap_status
\* Underserved exactly when service_gap > 0
C15_FallbackRecordPerDistrict ==
    (/\ pc # "identify_service_gaps"
     /\ data.master_district.present
     /\ ~(required_cols \subseteq data.master_district.cols)) =>
        /\ pc # "raised"
        /\ insights.service_gaps.present
        /\ OneRecordPerDistrict
        /\ \A i \in 1..Len(insights.service_gaps.rows) :
              LET r == insights.service_gaps.rows[i]
              IN  /\ r.demand_potential =
                         fallback_demand(FFromInt(r.elderly_2024),
                                         SeriesMin(MasterElderly),
                                         SeriesMax(MasterElderly))
                  /\ r.estimated_service = FFromInt(50)
                  /\ r.gap_status = "Underserved" <=> FGt(r.service_gap, Zero)
                  /\ r.gap_status \in {"Underserved", "Well-served"}

\* C16: the service-gap table of the full path has exactly one record for
\* every district of the master table, whatever the labour table holds
C16_OneGapRecordPerDistrict ==
    (insights.service_gaps.present /\ FullPath) => OneRecordPerDistrict

\* the service gaps of the service-gap table
ServiceGaps == Column(insights.service_gaps.rows, LAMBDA r : r.service_gap)

\* C19: in a table of the full path, gap_status is Underserved when the
\* record's service_gap is strictly above the median service_gap of the
\* table, and Well-served otherwise
C19_UnderservedAboveMedian ==
    (insights.service_gaps.present /\ FullPath) =>
        \A i \in 1..Len(insights.service_gaps.rows) :
            insights.service_gaps.rows[i].gap_status =
                IF FGt(ServiceGaps[i], SeriesMedian(ServiceGaps))
                THEN "Underserved" ELSE "Well-served"

\* a table with a record above the median, one below it and one on it
C19_Witness ==
    /\ insights.service_gaps.present
    /\ FullPath
    /\ \E i, j, k \in 1..Len(insights.service_gaps.rows) :
          /\ insights.service_gaps.rows[i].gap_status = "Underserved"
          /\ FLt(ServiceGaps[j], SeriesMedian(ServiceGaps))
          /\ insights.service_gaps.rows[j].gap_status = "Well-served"
          /\ ServiceGaps[k] = SeriesMedian(ServiceGaps)
          /\ insights.service_gaps.rows[k].gap_status = "Well-served"

\* the priority scores of the service-gap table, and those that are numbers
PriorityScores == Column(insights.service_gaps.rows, LAMBDA r : r.priority_score)
ValidScores == SelectSeq(PriorityScores, notna)

\* the label of the binary split: High strictly above the median, else Low
MedianSplit(score, median) == IF FGt(score, median) THEN "High" ELSE "Low"

\* C13: with fewer than 4 priority scores that are numbers, every record's
\* priority is High when its score is strictly above the median of the
\* scores and Low otherwise, and identify_service_gaps raises only for a
\* labour table without labour_score, before any score is computed
C13_BinarySplitBelowFour ==
    /\ (insights.service_gaps.present /\ FullPath /\ Len(ValidScores) < 4) =>
          \A i \in 1..Len(insights.service_gaps.rows) :
              insights.service_gaps.rows[i].priority
                  = MedianSplit(PriorityScores[i], SeriesMedian(PriorityScores))
    /\ pc = "raised" =>
          data.labour_2024.present /\ "labour_score" \notin data.labour_2024.cols

\* three records with a number for a score, one High and one Low
C13_Witness ==
    /\ insights.service_gaps.present
    /\ FullPath
    /\ Len(ValidScores) = 3
    /\ \E i, j \in 1..Len(insights.service_gaps.rows) :
          /\ insights.service_gaps.rows[i].priority = "High"
          /\ insights.service_gaps.rows[j].priority = "Low"
          /\ IsFin(PriorityScores[j])

\* the tertile boundaries of the priority scores: the minimum, the
\* quantiles 1/3 and 2/3, the maximum
Tertiles == tertile_bins(PriorityScores)

\* the label of the three-way split: Low up to the first boundary, Medium
\* up to the second, High above it, and Low for a score that is missing
TertileSplit(score) ==
    IF IsNaN(score) \/ FLe(score, Tertiles[2]) THEN "Low"
    ELSE IF FLe(score, Tertiles[3]) THEN "Medium"
    ELSE "High"

\* two of the boundaries coincide
TertilesCollapse == Cardinality(Range(Tertiles)) < 4

\* C20: with at least 4 priority scores that are numbers, priority is the
\* tertile label of the score, or the binary median split when the tertile
\* boundaries collapse; every record has a priority of Low, Medium or High
C20_TertileOrMedianSplit ==
    (insights.service_gaps.present /\ FullPath) =>
        /\ \A i \in 1..Len(insights.service_gaps.rows) :
              insights.service_gaps.rows[i].priority \in {"Low", "Medium", "High"}
        /\ Len(ValidScores) >= 4 =>
              \A i \in 1..Len(insights.service_gaps.rows) :
                  insights.service_gaps.rows[i].priority =
                      IF TertilesCollapse
                      THEN MedianSplit(PriorityScores[i], SeriesMedian(PriorityScores))
                      ELSE TertileSplit(PriorityScores[i])

\* a table of at least 4 scored records labelled Low, Medium and High
C20_Witness ==
    /\ insights.service_gaps.present
    /\ FullPath
    /\ Len(ValidScores) >= 4
    /\ ~TertilesCollapse
    /\ {insights.service_gaps.rows[i].priority : i \in 1..Len(insights.service_gaps.rows)}
          = {"Low", "Medium", "High"}

(***************************************************************************)
(* DataReader and DataCleaner on files whose contents strain the           *)
(* reconciliation of the districts: a district listed twice, a household   *)
(* total of zero, the same ratio everywhere, no row of 2024.               *)
(***************************************************************************)
HouseholdCases ==
    HouseholdFiles \cup
    {\* Eastern listed twice for 2024
     File(<<"a", "b", "c", "d", "e">>,
          <<<<Num(2024), Str("Eastern"), Num(120), Num(60), Num(180)>>,
            <<Num(2024), Str("Eastern"), Num(100), Num(90), Num(190)>>,
            <<Num(2024), Str("Sha Tin"), Num(150), Num(90), Num(240)>>>>),
     \* a Total of zero
     File(<<"a", "b", "c", "d", "e">>,
          <<<<Num(2024), Str("Eastern"), Num(120), Num(60), Num(180)>>,
            <<Num(2024), Str("Sha Tin"), Num(150), Num(90), Num(0)>>>>),
     \* the same ratio in every district
     File(<<"a", "b", "c", "d", "e">>,
          <<<<Num(2024), Str("Eastern"), Num(65), Num(35), Num(100)>>,
            <<Num(2024), Str("Sha Tin"), Num(130), Num(70), Num(200)>>>>),
     \* no row of 2024
     File(<<"a", "b", "c", "d", "e">>,
          <<<<Num(2023), Str("Islands"), Num(40), Num(30), Num(70)>>>>)}

IncomeCases ==
    IncomeFiles \cup
    {\* Eastern listed twice for 2024
     File(<<"a", "b", "c", "d">>,
          <<<<Num(2024), Str("Eastern"), Num(41000), Num(32500)>>,
            <<Num(2024), Str("Eastern"), Num(41000), Num(29000)>>,
            <<Num(2024), Str("Islands"), Num(35000), Num(31000)>>>>),
     \* the income that is also the default of a district without one
     File(<<"a", "b", "c", "d">>,
          <<<<Num(2024), Str("Eastern"), Num(41000), Num(30000)>>,
            <<Num(2024), Str("Islands"), Num(35000), Num(30000)>>>>)}

AgeCases ==
    AgeFiles \cup
    {\* Eastern listed twice
     File(<<"a", "b", "c", "d", "e">>,
          <<<<Str("Eastern"), Num(10), Num(9), Num(55), Num(26)>>,
            <<Str("Eastern"), Num(10), Num(9), Num(57), Num(24)>>>>),
     \* a share that is not a number
     File(<<"a", "b", "c", "d", "e">>,
          <<<<Str("Eastern"), Num(10), Num(9), Num(55), Str("n.a.")>>,
            <<Str("Sha Tin"), Num(10), Num(9), Num(57), Num(24)>>>>)}

\* the death, hospital and labour files: none of them, or all of them
OtherFiles(all) ==
    [deaths |-> [y \in Range(year_cols) |->
                    IF all THEN DeathFile(y - 2000) ELSE NoFile],
     hospital_discharges |->
        IF all THEN CHOOSE f \in HospitalFiles : f.exists /\ Len(f.header) = 10
        ELSE NoFile,
     labour_2_1 |-> IF all THEN CHOOSE f \in LabourFiles : f.exists ELSE NoFile]

InitClean ==
    /\ pc = "read_population_data"
    /\ \E age \in AgeCases, households \in HouseholdCases, income \in IncomeCases,
          all \in BOOLEAN :
          files = [population_age |-> age,
                   deaths |-> OtherFiles(all).deaths,
                   hospital_discharges |-> OtherFiles(all).hospital_discharges,
                   households |-> households,
                   income |-> income,
                   labour_2_1 |-> OtherFiles(all).labour_2_1]
    /\ raw = NoRaw
    /\ data = NoData
    /\ insights = NoInsights
    /\ forecasts = NoForecasts

NextClean ==
    \/ read_population_data
    \/ read_death_data
    \/ read_hospital_data
    \/ read_household_data
    \/ clean_population
    \/ clean_deaths
    \/ clean_hospital
    \/ clean_households
    \/ create_master_district

SpecClean == InitClean /\ [][NextClean]_vars

\* the rows of the master table for a district
MasterRowsOf(district) ==
    {i \in 1..Len(data.master_district.rows) :
        data.master_district.rows[i].District = district}

\* C2: the master table has each of the 18 districts exactly once, and no
\* row of any other district
C2_EachDistrictOnce ==
    data.master_district.present =>
        /\ \A d \in Range(HK_DISTRICTS) : Cardinality(MasterRowsOf(d)) = 1
        /\ Len(data.master_district.rows) = Len(HK_DISTRICTS)

InUnit(x) == FLe(Zero, x) /\ FLe(x, FFromInt(1))

\* C5: demand_potential lies in [0, 100] in every row of the master table
C5_DemandPotentialInRange ==
    data.master_district.present =>
        \A i \in 1..Len(data.master_district.rows) :
            LET x == data.master_district.rows[i].demand_potential
            IN  FLe(Zero, x) /\ FLe(x, FFromInt(100))

\* C6: income_score, elderly_score and inactive_score lie in [0, 1] in
\* every row of the master table
C6_ScoresInUnitInterval ==
    data.master_district.present =>
        \A i \in 1..Len(data.master_district.rows) :
            LET r == data.master_district.rows[i]
            IN  InUnit(r.income_score) /\ InUnit(r.elderly_score)
                  /\ InUnit(r.inactive_score)


(***************************************************************************)
(* Forecaster.forecast_elderly_population on one district whose series     *)
(* rises or falls along a line, or falls steeply towards zero.             *)
(***************************************************************************)
TrendHistories ==
    {<<100, 110, 120, 130, 140, 150>>,
     <<178048, 177872, 177696, 177520, 177344, 177168>>,
     <<1000, 800, 600, 400, 200, 0>>,
     <<300, 100, 250, 90, 200, 60>>}

InitTrend ==
    /\ pc = "forecast_elderly_population"
    /\ files = NoFiles
    /\ raw = NoRaw
    /\ insights = NoInsights
    /\ forecasts = NoForecasts
    /\ \E h \in TrendHistories :
          data = [NoData EXCEPT !.elderly_population =
                     Table(ElderlyCols, <<elderly_row(HK_DISTRICTS[1], h)>>)]

NextTrend ==
    \/ forecast_elderly_population
    \/ forecast_equipment_demand
    \/ simulate_pandemic_scenario

SpecTrend == InitTrend /\ [][NextTrend]_vars

\* the historical series of a district
HistoryOf(district) ==
    pop_values(CHOOSE r \in Range(data.elderly_population.rows) : r.District = district)

\* the step of a series that changes by the same amount every year
IsLinear(y) == \A k \in 1..4 : y[k + 1] - y[k] = y[k + 2] - y[k + 1]

C17_PredictionsNonNegative ==
    forecasts.elderly_2025_2030.present =>
        \A i \in 1..Len(forecasts.elderly_2025_2030.rows) :
            \A year \in Range(FORECAST_YEARS) :
                forecasts.elderly_2025_2030.rows[i].year[year] \in Nat

\* the values of a column of the master table
MasterValues(name) ==
    {data.master_district.rows[i][name] : i \in 1..Len(data.master_district.rows)}

\* every row of the master table has the same value in a column
SameEverywhere(name) == Cardinality(MasterValues(name)) <= 1

\* C14: when every district has the same income, the same elderly
\* population or the same inactive ratio, the score of that indicator is
\* 0.5 in every row of the master table
C14_SameValueScoresHalf ==
    data.master_district.present =>
        /\ SameEverywhere("Income_all") => MasterValues("income_score") \subseteq {FDec(5, 10)}
        /\ SameEverywhere("elderly_2024") => MasterValues("elderly_score") \subseteq {FDec(5, 10)}
        /\ SameEverywhere("inactive_ratio") => MasterValues("inactive_score") \subseteq {FDec(5, 10)}

\* a master table of 18 districts with one income and one inactive ratio
C14_Witness ==
    /\ data.master_district.present
    /\ Len(data.master_district.rows) = Len(HK_DISTRICTS)
    /\ SameEverywhere("Income_all")
    /\ SameEverywhere("inactive_ratio")
    /\ MasterValues("income_score") = {FDec(5, 10)}
    /\ MasterValues("inactive_score") = {FDec(5, 10)}

\* the reader has run
ReaderDone ==
    pc \notin {"read_population_data", "read_death_data", "read_hospital_data",
               "read_household_data"}

\* C18: an income file with a number of columns other than 3, 4 or 5 is not
\* stored as the 'income' source, and the cleaner's income table is then
\* the fallback one
C18_UnknownIncomeShapeRejected ==
    (ReaderDone /\ files.income.exists /\ Len(files.income.header) \notin {3, 4, 5}) =>
        /\ ~raw.income.present
        /\ pc # "raised"
        /\ data.income_2024.present => data.income_2024 = _create_fallback_income

\* the largest elderly_2024 of the master table
MaxElderly ==
    SeriesMax(Column(data.master_district.rows, LAMBDA r : FFromInt(r.elderly_2024)))

\* C21: with no household source in the raw data, the inactive_ratio of
\* each district is elderly_2024 / max elderly_2024 * 0.5, and districts
\* with different elderly populations have different ratios
C21_RatioProportionalToElderly ==
    (data.master_district.present /\ ~raw.households.present) =>
        \A i \in 1..Len(data.master_district.rows) :
            LET r == data.master_district.rows[i]
            IN  /\ r.inactive_ratio =
                      FMul(FDiv(FFromInt(r.elderly_2024), MaxElderly), FDec(5, 10))
                /\ \A j \in 1..Len(data.master_district.rows) :
                      r.elderly_2024 # data.master_district.rows[j].elderly_2024 =>
                          r.inactive_ratio # data.master_district.rows[j].inactive_ratio

\* the values a cleaned table holds for a district under a column
SourceValues(table, district, name) ==
    {r[name] : r \in {q \in Range(table.rows) : q.District = district}}

\* the value the master table may hold for a district: one of the values
\* of the joined table, its default if that value is missing or if the
\* table has no row for the district
Substituted(table, district, name, default) ==
    IF SourceValues(table, district, name) = {} THEN {default}
    ELSE {fillna(v, default) : v \in SourceValues(table, district, name)}

\* C22: in the master table no district has a missing Income_all,
\* inactive_ratio or Age_65_plus; a district without a row, or with a
\* missing value, in a joined table has 30000, 0.35 and 22.3, and without
\* an age table Age_65_plus is elderly_2024 over the district's population
C22_NoNullAfterJoins ==
    data.master_district.present =>
        \A i \in 1..Len(data.master_district.rows) :
            LET r == data.master_district.rows[i]
            IN  /\ notna(r.Income_all) /\ notna(r.inactive_ratio) /\ notna(r.Age_65_plus)
                /\ r.Income_all \in
                      Substituted(data.income_2024, r.District, "Income_all",
                                  FFromInt(30000))
                /\ r.inactive_ratio \in
                      Substituted(data.households_2024, r.District, "inactive_ratio",
                                  FDec(35, 100))
                /\ IF data.age_props.present
                   THEN r.Age_65_plus \in
                           Substituted(data.age_props, r.District, "Age_65_plus",
                                       FDec(223, 10))
                   ELSE r.Age_65_plus = Age_65_plus(r)

\* a master table where a district took all three defaults, one of them
\* for a value that its joined table holds as missing
C22_Witness ==
    /\ data.master_district.present
    /\ \E i \in 1..Len(data.master_district.rows) :
          LET r == data.master_district.rows[i]
          IN  /\ SourceValues(data.income_2024, r.District, "Income_all") = {}
              /\ r.Income_all = FFromInt(30000)
              /\ SourceValues(data.households_2024, r.District, "inactive_ratio") = {}
              /\ r.inactive_ratio = FDec(35, 100)
              /\ r.Age_65_plus = FDec(223, 10)
    /\ \E i \in 1..Len(data.master_district.rows) :
          LET r == data.master_district.rows[i]
          IN  /\ NaN \in SourceValues(data.age_props, r.District, "Age_65_plus")
              /\ r.Age_65_plus = FDec(223, 10)

\* a column of the master table
MasterColumn(name) ==
    Column(data.master_district.rows,
           LAMBDA r : IF name = "elderly_2024" THEN FFromInt(r[name]) ELSE r[name])

\* the min-max normalisation of a value of a column of the master table
Normalised(name, x) ==
    FDiv(FSub(x, SeriesMin(MasterColumn(name))),
         FSub(SeriesMax(MasterColumn(name)), SeriesMin(MasterColumn(name))))

Spread(name) == FGt(SeriesMax(MasterColumn(name)), SeriesMin(MasterColumn(name)))

\* C23: demand_potential = 100 * (0.5 * elderly_score + 0.3 * income_score
\* + 0.2 * inactive_score); elderly_score and inactive_score are the
\* min-max normalisations, income_score the inverted one, and of two
\* districts the one with the strictly lower income has the strictly
\* higher income_score
C23_DemandPotentialComposite ==
    data.master_district.present =>
        \A i \in 1..Len(data.master_district.rows) :
            LET r == data.master_district.rows[i]
            IN  /\ r.demand_potential =
                      FMul(FAdd(FAdd(FMul(r.elderly_score, FDec(5, 10)),
                                     FMul(r.income_score, FDec(3, 10))),
                                FMul(r.inactive_score, FDec(2, 10))),
                           FFromInt(100))
                /\ Spread("elderly_2024") =>
                      r.elderly_score = Normalised("elderly_2024", FFromInt(r.elderly_2024))
                /\ Spread("inactive_ratio") =>
                      r.inactive_score = Normalised("inactive_ratio", r.inactive_ratio)
                /\ Spread("Income_all") =>
                      r.income_score =
                          FSub(FFromInt(1), Normalised("Income_all", r.Income_all))
                /\ \A j \in 1..Len(data.master_district.rows) :
                      FLt(r.Income_all, data.master_district.rows[j].Income_all) =>
                          FGt(r.income_score, data.master_district.rows[j].income_score)

\* a master table whose three indicators vary, with two districts of
\* different income and a demand_potential strictly between 0 and 100
C23_Witness ==
    /\ data.master_district.present
    /\ Spread("elderly_2024") /\ Spread("inactive_ratio") /\ Spread("Income_all")
    /\ \E i, j \in 1..Len(data.master_district.rows) :
          /\ FLt(data.master_district.rows[i].Income_all,
                 data.master_district.rows[j].Income_all)
          /\ FGt(data.master_district.rows[i].income_score,
                 data.master_district.rows[j].income_score)
          /\ FGt(data.master_district.rows[i].demand_potential, Zero)
          /\ FLt(data.master_district.rows[i].demand_potential, FFromInt(100))

\* v is a whole number nearest to n / 210
NearestTo(v, n) ==
    LET d == 210 * v - n
    IN  2 * (IF d >= 0 THEN d ELSE -d) <= 210

\* C24: each forecast value of a district is the fitted value of the
\* regression for that year, rounded to the nearest integer
C24_ForecastRoundedToNearest ==
    forecasts.elderly_2025_2030.present =>
        \A i \in 1..Len(district_forecast) :
            \A year \in Range(FORECAST_YEARS) :
                NearestTo(district_forecast[i].year[year],
                          PredNum(HistoryOf(district_forecast[i].District), year))

\* the annual_growth, or the r2_score, of the district rows of the forecast
GrowthOfDistricts == [i \in 1..Len(district_forecast) |-> district_forecast[i].annual_growth]
R2OfDistricts == [i \in 1..Len(district_forecast) |-> district_forecast[i].r2_score]

\* C25: the total row reports as annual_growth and r2_score the arithmetic
\* mean of the districts' annual_growth and r2_score
C25_TotalRowReportsMeans ==
    forecasts.elderly_2025_2030.present =>
        \A t \in TotalRows :
            /\ forecasts.elderly_2025_2030.rows[t].annual_growth
                  = FDiv(FSum(GrowthOfDistricts, Zero), FFromInt(Len(district_forecast)))
            /\ forecasts.elderly_2025_2030.rows[t].r2_score
                  = FDiv(FSum(R2OfDistricts, Zero), FFromInt(Len(district_forecast)))

\* a forecast of several districts that grow at different rates, whose
\* total row reports neither the sum of the rates nor the rate of a district
C25_Witness ==
    /\ forecasts.elderly_2025_2030.present
    /\ Len(district_forecast) >= 2
    /\ \E t \in TotalRows :
          LET total == forecasts.elderly_2025_2030.rows[t]
          IN  /\ total.annual_growth # FSum(GrowthOfDistricts, Zero)
              /\ \A i \in 1..Len(district_forecast) :
                    /\ total.annual_growth # district_forecast[i].annual_growth
                    /\ total.r2_score # district_forecast[i].r2_score
              /\ FGt(total.annual_growth, Zero)
              /\ FLt(total.r2_score, FFromInt(1))

\* the steps of DataCleaner.clean_all
CleanerSteps ==
    {"clean_population", "clean_deaths", "clean_hospital", "clean_households",
     "create_master_district"}

\* clean_all has returned
CleanerDone == ReaderDone /\ pc \notin CleanerSteps

\* C26: no stage changes the output of a previous stage: the steps of
\* analyse_all and forecast_all leave the cleaned tables (master_district,
\* elderly_population, labour_2024 among them) as clean_all returned them,
\* and the steps of clean_all leave the raw tables as read_all returned them
C26_EarlierOutputsUnchanged ==
    [][/\ ReaderDone => raw' = raw
       /\ CleanerDone => data' = data]_vars

\* the end of a run that read a labour file, cleaned it, scored the service
\* gaps from the master table and forecast from the elderly table
C26_Witness ==
    /\ pc = "done"
    /\ raw.labour_2_1.present
    /\ data.labour_2024.present
    /\ data.master_district.present
    /\ data.elderly_population.present
    /\ insights.service_gaps.present
    /\ forecasts.elderly_2025_2030.present
    /\ \E i \in 1..Len(insights.service_gaps.rows) :
          FGt(insights.service_gaps.rows[i].service_gap, Zero)

\* the methods in the order main() and the four stages call them
StageOrder ==
    <<"read_population_data", "read_death_data", "read_hospital_data",
      "read_household_data",
      "clean_population", "clean_deaths", "clean_hospital", "clean_households",
      "create_master_district",
      "identify_service_gaps", "map_disease_to_equipment", "create_personas",
      "find_overlooked_conditions",
      "forecast_elderly_population", "forecast_equipment_demand",
      "simulate_pandemic_scenario", "done">>

AnalystSteps ==
    {"identify_service_gaps", "map_disease_to_equipment", "create_personas",
     "find_overlooked_conditions"}

ForecasterSteps ==
    {"forecast_elderly_population", "forecast_equipment_demand",
     "simulate_pandemic_scenario"}

\* C27: the stages run one after another in the order read, clean, analyse,
\* forecast, each writing its output only in its own turn; the equipment
\* demand table is produced only when the population forecast exists, and
\* the pandemic scenario table only when the equipment demand table exists
C27_StagesInOrder ==
    [][/\ \E i \in 1..(Len(StageOrder) - 1) :
             pc = StageOrder[i] /\ pc' \in {StageOrder[i + 1], "raised"}
       /\ raw' # raw => ~ReaderDone
       /\ data' # data => pc \in CleanerSteps
       /\ insights' # insights => pc \in AnalystSteps
       /\ forecasts' # forecasts => pc \in ForecasterSteps
       /\ (forecasts'.equipment_demand_2025_2030.present
             /\ ~forecasts.equipment_demand_2025_2030.present)
            => forecasts.elderly_2025_2030.present
       /\ (forecasts'.pandemic_scenario.present /\ ~forecasts.pandemic_scenario.present)
            => forecasts.equipment_demand_2025_2030.present]_vars

\* the end of a run in which every stage has produced its tables
C27_Witness ==
    /\ pc = "done"
    /\ raw # NoRaw
    /\ data.master_district.present
    /\ insights.service_gaps.present
    /\ forecasts.elderly_2025_2030.present
    /\ forecasts.equipment_demand_2025_2030.present
    /\ forecasts.pandemic_scenario.present
    /\ forecasts.pandemic_scenario.rows # <<>>


\* the records of the service-gap table labelled Underserved
Underserved ==
    {i \in 1..Len(insights.service_gaps.rows) :
        insights.service_gaps.rows[i].gap_status = "Underserved"}

\* the service_gap values of the table
GapValues == {ServiceGaps[i] : i \in 1..Len(ServiceGaps)}

\* C30: in a table of the full path with n records, at most floor(n / 2)
\* are Underserved, and none is when every record has the same service_gap
C30_AtMostHalfUnderserved ==
    (insights.service_gaps.present /\ FullPath) =>
        /\ 2 * Cardinality(Underserved) <= Len(insights.service_gaps.rows)
        /\ Cardinality(GapValues) = 1 => Underserved = {}

\* a table of five records with different gaps, two of them Underserved
C30_Witness ==
    /\ insights.service_gaps.present
    /\ FullPath
    /\ Len(insights.service_gaps.rows) = 5
    /\ Cardinality(GapValues) = 5
    /\ \A v \in GapValues : notna(v)
    /\ Cardinality(Underserved) = 2


(***************************************************************************)
(* The two sorted tables: the master table as the cleaner makes it from    *)
(* the files, and the service-gap table as the Analyst makes it from that  *)
(* master table or from a master table handed to it, by the full path or   *)
(* by the fallback.                                                        *)
(***************************************************************************)
InitTables == InitClean \/ InitGap

NextTables == NextClean \/ NextGap

SpecTables == InitTables /\ [][NextTables]_vars

\* the keys of the two tables, in the order of their rows
DemandKeys == Column(data.master_district.rows, LAMBDA r : r.demand_potential)
GapKeys == Column(insights.service_gaps.rows, LAMBDA r : r.service_gap)

\* no value is followed, at any distance, by a strictly greater one
NonIncreasing(keys) ==
    \A i \in 1..Len(keys) : \A j \in (i + 1)..Len(keys) : ~FGt(keys[j], keys[i])

\* C28: the master table is in the order of demand_potential, largest
\* first, and the service-gap table, of the full path and of the fallback,
\* in the order of service_gap, largest first
C28_TablesSortedDescending ==
    /\ ("demand_potential" \in data.master_district.cols) => NonIncreasing(DemandKeys)
    /\ insights.service_gaps.present => NonIncreasing(GapKeys)

\* a master table made from the files with falling demand_potential, and
\* the service-gap table made from it with falling service_gap and its
\* districts in another order than the master table has them
C28_Witness ==
    /\ files # NoFiles
    /\ data.master_district.present
    /\ insights.service_gaps.present
    /\ Len(insights.service_gaps.rows) = Len(data.master_district.rows)
    /\ FGt(DemandKeys[1], DemandKeys[Len(DemandKeys)])
    /\ FGt(GapKeys[1], GapKeys[Len(GapKeys)])
    /\ \E i \in 1..Len(GapKeys) :
          insights.service_gaps.rows[i].District # data.master_district.rows[i].District

\* the rows of the pandemic scenario for a district and category
PandemicRowsOf(district, category) ==
    {i \in 1..Len(forecasts.pandemic_scenario.rows) :
        /\ forecasts.pandemic_scenario.rows[i].District = district
        /\ forecasts.pandemic_scenario.rows[i].Equipment_Category = category}

\* the districts named in either table
DistrictsNamed ==
    {forecasts.pandemic_scenario.rows[i].District :
        i \in 1..Len(forecasts.pandemic_scenario.rows)}
      \cup {forecasts.equipment_demand_2025_2030.rows[i].District :
               i \in 1..Len(forecasts.equipment_demand_2025_2030.rows)}

\* C29: the pandemic scenario has one row for each row of the equipment
\* demand table of 2025, of the same district, category and demand, and no
\* other row; none of its rows is the territory total
C29_ScenarioRowsAreRowsOf2025 ==
    forecasts.pandemic_scenario.present =>
        /\ \A d \in DistrictsNamed : \A c \in Range(Categories) :
              /\ Cardinality(PandemicRowsOf(d, c))
                    = Cardinality(EquipmentRowsOf(d, 2025, c))
              /\ \A i \in PandemicRowsOf(d, c) : \E k \in EquipmentRowsOf(d, 2025, c) :
                    forecasts.pandemic_scenario.rows[i].Normal_Demand
                        = forecasts.equipment_demand_2025_2030.rows[k].Estimated_Demand
        /\ \A i \in 1..Len(forecasts.pandemic_scenario.rows) :
              /\ forecasts.pandemic_scenario.rows[i].District # "Hong Kong Total"
              /\ forecasts.pandemic_scenario.rows[i].Equipment_Category \in Range(Categories)

\* a scenario with rows, made from a forecast in which a district and
\* category has a demand for 2025 of at most 100, hence no row in either
\* table, although the multiplier would lift that demand above 100
C29_Witness ==
    /\ forecasts.pandemic_scenario.present
    /\ forecasts.pandemic_scenario.rows # <<>>
    /\ \E i \in 1..Len(district_forecast) : \E c \in Range(Categories) :
          LET demand == estimated_demand(district_forecast[i].year[2025], 2025, c)
          IN  /\ demand <= 100
              /\ Pandemic_Demand(demand, PANDEMIC_MULTIPLIERS[c]) > 100
              /\ PandemicRowsOf(district_forecast[i].District, c) = {}
              /\ \E c2 \in Range(Categories) :
                    PandemicRowsOf(district_forecast[i].District, c2) # {}

=============================================================================
